---- MODULE Spec2Model ----
(***************************************************************************)
(* Quiz-Funnel-Runner: the funnel driver loop (runner/runFunnel.ts), the   *)
(* orchestrator (index.ts), and the parts of the screen classifier and of  *)
(* the action dispatcher that the driver's control flow depends on.        *)
(*                                                                         *)
(* The browser is the environment.  A document is a record of the probes   *)
(* the classifier and the fingerprint read from it.  The environment       *)
(* chooses: the landing document, whether a navigation attempt fails, the  *)
(* document shown after an interaction, the outcome of a dispatch, errors  *)
(* raised by awaited browser calls, and external closure of the page.      *)
(***************************************************************************)
EXTENDS Integers, Sequences, FiniteSets, TLC

(***************************************************************************)
(* Program constants (config.ts RUN_CONFIG).                               *)
(***************************************************************************)
maxSteps == 60
sameDomHashLimit == 12

(***************************************************************************)
(* Bounds of the model (not program constants).                            *)
(***************************************************************************)
\* non-closure errors raised by the awaited calls of the steps other than the
\* dispatch, per run
MaxStepErrors == 1
\* addresses handed to the orchestrator in the multi-address specification
NumUrls == 3
\* the largest step number handed to the classifier on its own
MaxClassifyStep == 21
\* characters of an address after its first, and characters of a markup
MaxAddressTail == 2
MaxMarkupLen == 3
\* option selections that move the rotation cursor, and candidates of a selection
MaxSelections == 8
MaxCandidates == 5
\* rotating selections made by the dispatches of one process
MaxDispatchSelections == 2
MaxRotations == 3
MaxFunnels == 2

ScreenTypes == {"question", "info", "input", "email", "paywall", "other"}

(***************************************************************************)
(* Documents.  Each field is one read-only probe of classifyScreen, or an  *)
(* input of the fingerprint (url, len, prefix), or `interactive`: whether  *)
(* the document has any visible control an action strategy can target.     *)
(***************************************************************************)
BlankDoc ==
  [ url |-> "u1", len |-> 1, prefix |-> "blank",
    priceMatches |-> 0, paywallCtaCount |-> 0, hasPaywallText |-> FALSE,
    broadVocab |-> FALSE, softVocab |-> FALSE, offerVocab |-> FALSE,
    hasEmailType |-> FALSE, hasEmailAutocomplete |-> FALSE,
    hasEmailName |-> FALSE, hasEmailPlaceholder |-> FALSE,
    radioCount |-> 0, checkboxCount |-> 0,
    inputCount |-> 0, profileHintInputs |-> 0, inputKeywords |-> FALSE,
    optionButtons |-> 0, optionCards |-> 0,
    hasAnyInput |-> FALSE, ctaCount |-> 0, bodyTextLength |-> 0,
    interactive |-> FALSE ]

\* two radio options and a Continue button
QuestionDoc ==
  [BlankDoc EXCEPT !.url = "u2", !.len = 2, !.prefix = "question",
     !.radioCount = 2, !.hasAnyInput = TRUE, !.ctaCount = 1,
     !.bodyTextLength = 30, !.interactive = TRUE]

\* an email field and a Continue button
EmailDoc ==
  [BlankDoc EXCEPT !.url = "u3", !.len = 3, !.prefix = "email",
     !.hasEmailType = TRUE, !.hasAnyInput = TRUE, !.ctaCount = 1,
     !.bodyTextLength = 30, !.interactive = TRUE]

\* text and exactly one button
InfoDoc ==
  [BlankDoc EXCEPT !.url = "u4", !.len = 4, !.prefix = "info",
     !.ctaCount = 1, !.bodyTextLength = 30, !.interactive = TRUE]

\* "$49 ... $99", "Subscribe Now": paywall by rule (a) at every step > 1
PaywallDoc ==
  [BlankDoc EXCEPT !.url = "u5", !.len = 5, !.prefix = "paywall",
     !.priceMatches = 2, !.paywallCtaCount = 1, !.hasPaywallText = TRUE,
     !.broadVocab = TRUE, !.softVocab = TRUE,
     !.ctaCount = 1, !.bodyTextLength = 30, !.interactive = TRUE]

Docs == {BlankDoc, QuestionDoc, EmailDoc, PaywallDoc}

(***************************************************************************)
(* classifyScreen (classifier/classifyScreen.ts): first matching rule wins *)
(***************************************************************************)
aggressivePaywall(d, s) ==
  s >= 10 /\ d.priceMatches >= 1 /\ d.paywallCtaCount >= 1 /\ d.broadVocab

\* subscription vocabulary alone, without a purchase control
lateStageSoftWithoutCta(d, s) == s >= 20 /\ d.softVocab

lateStageSoftPaywall(d, s) ==
  s >= 20 /\ d.paywallCtaCount >= 1 /\ d.softVocab

lateStagePriceOfferPaywall(d, s) ==
  s >= 15 /\ d.priceMatches >= 1 /\ d.offerVocab

strongPaywallSignal(d, s) ==
  \/ aggressivePaywall(d, s)
  \/ lateStageSoftPaywall(d, s)
  \/ /\ d.paywallCtaCount >= 1
     /\ (d.priceMatches >= 2 \/ (d.priceMatches >= 1 /\ d.hasPaywallText))
  \/ lateStagePriceOfferPaywall(d, s)

\* radio and checkbox controls do not hold the input rule back
radioNeverDefers(d) == FALSE

hasRadioOrCheckbox(d) == d.radioCount >= 1 \/ d.checkboxCount >= 1

\* the four probes of the email rule
emailRule(d) ==
  d.hasEmailType \/ d.hasEmailAutocomplete \/ d.hasEmailName \/ d.hasEmailPlaceholder

\* the email rule is decided first, the paywall rule after it
classifyEmailFirst(d, s) ==
  IF emailRule(d) THEN "email"
  ELSE IF s > 1 /\ strongPaywallSignal(d, s) THEN "paywall"
  ELSE IF ~hasRadioOrCheckbox(d) /\ (d.inputCount >= 1 \/ d.profileHintInputs >= 1)
       THEN "input"
  ELSE IF d.radioCount + d.checkboxCount >= 2 THEN "question"
  ELSE "other"

\* the input rule is decided before the email rule
classifyInputBeforeEmail(d, s) ==
  IF s > 1 /\ strongPaywallSignal(d, s) THEN "paywall"
  ELSE IF ~hasRadioOrCheckbox(d) /\ (d.inputCount >= 1 \/ d.profileHintInputs >= 1)
       THEN "input"
  ELSE IF emailRule(d) THEN "email"
  ELSE IF d.radioCount + d.checkboxCount >= 2 THEN "question"
  ELSE "other"

classifyScreen(d, s) ==
  IF s > 1 /\ strongPaywallSignal(d, s) THEN "paywall"
  ELSE IF d.hasEmailType \/ d.hasEmailAutocomplete \/ d.hasEmailName
          \/ d.hasEmailPlaceholder THEN "email"
  ELSE IF ~hasRadioOrCheckbox(d) /\ (d.inputCount >= 1 \/ d.profileHintInputs >= 1)
       THEN "input"
  ELSE IF ~hasRadioOrCheckbox(d) /\ d.inputKeywords THEN "input"
  ELSE IF d.radioCount >= 2 \/ d.checkboxCount >= 2
          \/ d.radioCount + d.checkboxCount >= 2 THEN "question"
  ELSE IF d.optionButtons >= 2 THEN "question"
  ELSE IF d.optionCards >= 2 THEN "question"
  ELSE IF ~d.hasAnyInput /\ d.radioCount + d.checkboxCount = 0
          /\ d.ctaCount = 1 /\ d.bodyTextLength > 20 THEN "info"
  ELSE "other"


(***************************************************************************)
(* Pages as the classifier probes them.  A page has visible buttons (by    *)
(* label), a cluster of language buttons, text phrases, price tokens,      *)
(* visible email-typed inputs, an email-typed input that is not rendered   *)
(* (hiddenEmail), visible text inputs and radio controls.  Each pattern of    *)
(* classifyScreen is the set of the phrases it matches.                    *)
(***************************************************************************)
ButtonLabels == {"Male", "Female", "Subscribe", "Start Trial", "Accept all"}

TextPhrases == {"Choose your plan", "What is your name?", "Limited offer today"}

\* /(subscribe|buy now|purchase|...|start plan|...|get plan|get access)/i
MatchesPaywallKeywords == {"Subscribe"}

\* /(subscription|per\s*month|your plan|...|choose your plan|...|premium|trial)/i
MatchesPaywallText == {"Choose your plan", "Start Trial"}

\* /(start|subscribe|buy|continue|unlock|get access)/i
MatchesCommerceVocab == {"Subscribe", "Start Trial"}

\* /(subscription|per month|your plan|choose your plan|...|premium|trial)/i
MatchesSubscriptionVocab == {"Choose your plan", "Start Trial"}

\* /(today|limited|offer|save|off|discount|trial|month|week|year|...)/i
MatchesOfferVocab == {"Limited offer today", "Start Trial"}

\* /(your height|your weight|your age|how old|...|enter your name|your name)/i
MatchesInputKeywords == {"What is your name?"}

\* /^(accept|reject|allow|agree|cookie|close|skip|...)/i
MatchesNavCta == {"Accept all"}

\* the language cluster: "English", "Deutsch", "Italiano", "Polski"
LanguageClusters == {0, 4}

Pages ==
  [buttons : SUBSET ButtonLabels, langButtons : LanguageClusters,
   text : SUBSET TextPhrases, prices : {0, 1, 2},
   emailInputs : {0, 1}, textInputs : {0, 1, 2}, radios : {0, 2},
   hiddenEmail : BOOLEAN]

\* the text of the markup, and of the body: phrases and button labels
Content(p) == p.text \cup p.buttons

RECURSIVE TextLength(_)
TextLength(S) ==
  IF S = {} THEN 0
  ELSE LET x == CHOOSE y \in S : TRUE IN Len(x) + TextLength(S \ {x})

\* countOptionLikeButtons: short labels that are neither navigation nor languages
countOptionLikeButtons(p) ==
  LET optionCount == Cardinality(p.buttons \ MatchesNavCta)
      languageCount == p.langButtons
  IN IF languageCount >= 4 /\ optionCount <= 2 THEN 0 ELSE optionCount

\* the probes of classifyScreen on a page
Probe(p) ==
  [ url |-> "u", len |-> TextLength(Content(p)), prefix |-> Content(p),
    priceMatches |-> p.prices,
    paywallCtaCount |-> Cardinality(p.buttons \cap MatchesPaywallKeywords),
    hasPaywallText |-> Content(p) \cap MatchesPaywallText # {},
    broadVocab |-> Content(p) \cap MatchesCommerceVocab # {},
    softVocab |-> Content(p) \cap MatchesSubscriptionVocab # {},
    offerVocab |-> Content(p) \cap MatchesOfferVocab # {},
    hasEmailType |-> (p.emailInputs > 0 \/ p.hiddenEmail),
    hasEmailAutocomplete |-> FALSE,
    hasEmailName |-> FALSE, hasEmailPlaceholder |-> FALSE,
    radioCount |-> p.radios, checkboxCount |-> 0,
    inputCount |-> p.textInputs, profileHintInputs |-> 0,
    inputKeywords |-> Content(p) \cap MatchesInputKeywords # {},
    optionButtons |-> countOptionLikeButtons(p), optionCards |-> 0,
    hasAnyInput |-> p.emailInputs + p.textInputs + p.radios > 0,
    ctaCount |-> Cardinality(p.buttons) + p.langButtons,
    bodyTextLength |-> TextLength(Content(p)) + 3 * p.prices + 7 * p.langButtons,
    interactive |-> (p.buttons # {} \/ p.langButtons > 0
                     \/ p.emailInputs + p.textInputs + p.radios > 0) ]

\* classifyScreen(page, step)
classifyPage(p, s) == classifyScreen(Probe(p), s)

(***************************************************************************)
(* getStableDomSnapshot (runFunnel.ts): address, normalized markup length  *)
(* and markup prefix; a closed page yields a time-stamped key instead.     *)
(***************************************************************************)
Fingerprint(d) == <<d.url, d.len, d.prefix>>

getStableDomSnapshot(isClosed, d, now) ==
  IF isClosed THEN <<"CLOSED_PAGE_HASH", now, "">> ELSE Fingerprint(d)

(***************************************************************************)
(* getStableDomSnapshot on strings.  An address and a markup are sequences *)
(* of characters; a serialized address has no "<", and a markup is empty   *)
(* (page.content() failed) or begins with "<".                             *)
(***************************************************************************)
\* normalized.slice(0, 300)
SliceLimit == 300

AddressChars == {"|", "3"}

MarkupChars == {" ", "a"}

SeqsUpTo(S, n) == UNION {[1..k -> S] : k \in 0..n}

Addresses == {<<"u">> \o t : t \in SeqsUpTo(AddressChars, MaxAddressTail)}

Markups ==
  {<<>>} \cup {<<"<">> \o t : t \in SeqsUpTo(MarkupChars, MaxMarkupLen - 1)}

\* html.replace(/\s+/g, " "): a run of whitespace becomes one space
RECURSIVE CollapseSpaces(_)
CollapseSpaces(m) ==
  IF Len(m) <= 1 THEN m
  ELSE IF m[1] = " " /\ m[2] = " " THEN CollapseSpaces(Tail(m))
  ELSE <<m[1]>> \o CollapseSpaces(Tail(m))

\* .trim()
RECURSIVE Trim(_)
Trim(m) ==
  IF m = <<>> THEN m
  ELSE IF m[1] = " " THEN Trim(Tail(m))
  ELSE IF m[Len(m)] = " " THEN Trim(SubSeq(m, 1, Len(m) - 1))
  ELSE m

Normalize(m) == Trim(CollapseSpaces(m))

\* the decimal digits of a natural number
RECURSIVE Digits(_)
Digits(n) ==
  LET d == <<"0", "1", "2", "3", "4", "5", "6", "7", "8", "9">>[(n % 10) + 1]
  IN IF n < 10 THEN <<d>> ELSE Digits(n \div 10) \o <<d>>

Slice(m, n) == SubSeq(m, 1, IF Len(m) < n THEN Len(m) ELSE n)

\* a key without the address
SnapshotWithoutAddress(address, markup) ==
  Digits(Len(Normalize(markup))) \o <<":">> \o Slice(Normalize(markup), SliceLimit)

\* `${url}|${normalized.length}:${normalized.slice(0, 300)}`
SnapshotString(address, markup) ==
  address \o <<"|">> \o Digits(Len(Normalize(markup))) \o <<":">>
    \o Slice(Normalize(markup), SliceLimit)

\* a document state of an open page, with the fingerprint taken of it
Snapshot(address, markup) ==
  [address |-> address, markup |-> markup, hash |-> SnapshotString(address, markup)]

Snapshots == {Snapshot(a, m) : a \in Addresses, m \in Markups}

(***************************************************************************)
(* Errors raised by awaited browser calls, by message.  Contains[m] is the *)
(* set of the needles of runFunnel's message inspection that occur in m.   *)
(***************************************************************************)
ClosureMessages == {"Target page, context or browser has been closed"}

ErrorMessages == ClosureMessages \cup {"Timeout 20000ms exceeded"}

Contains ==
  [m \in ErrorMessages |->
     IF m = "Target page, context or browser has been closed"
     THEN {"closed", "has been closed"}
     ELSE {}]

\* no message is taken for a closure
NeverIndicatesClosure(m) == FALSE

\* msg.includes("closed") || msg.includes("Target closed") || msg.includes("has been closed")
IndicatesClosure(m) ==
  \/ "closed" \in Contains[m]
  \/ "Target closed" \in Contains[m]
  \/ "has been closed" \in Contains[m]

(***************************************************************************)
(* Pieces of runFunnel's loop body, as operators.                          *)
(***************************************************************************)
\* the for-condition alone: the guard for runs without an email step is missing
LoopBudgetNoEmailGuard(s, email) == s > maxSteps + 15

\* the two budget guards at the top of the loop body, with the for-condition
LoopBudgetExhausted(s, email) ==
  \/ s > maxSteps + 15
  \/ ~email /\ s > maxSteps
  \/ email /\ s > maxSteps + 15

\* "Forced non-paywall on STEP 01"
\* no override: the classifier's archetype is kept at every step
NoStepOneOverride(s, type) == type

\* the STEP 01 override of the driver
ForcedNonPaywall(s, type) ==
  IF s = 1 /\ type = "paywall" THEN "other" ELSE type

\* a comparison that counts every step, equal fingerprint or not
SameHashAlwaysCounts(count, domHash, prev) == count + 1

\* the same-fingerprint counter after comparing domHash with previousHash
SameHashAfter(count, domHash, prev) ==
  IF domHash = prev THEN count + 1 ELSE 1

\* a driver without the email stuck recovery
EmailNeverLooksStuck(type, same) == FALSE

\* the condition of the email stuck recovery
EmailLooksStuck(type, same) == type = "email" /\ same >= 3

\* either signal alone triggers
AntiLoopEitherSignal(same, noAction) ==
  same >= sameDomHashLimit \/ noAction >= 2

\* the anti-loop condition: both signals are required
AntiLoopTriggered(same, noAction) ==
  same >= sameDomHashLimit /\ noAction >= 2

\* a default that counts a dispatch that raised as performed
DefaultActionPerformed == [performed |-> TRUE, error |-> "none"]

\* actionResult before the dispatcher is called; it stays when the call throws
DefaultActionResult == [performed |-> FALSE, error |-> "none"]

\* a counter of all no-action dispatches: a performed dispatch does not reset it
NoActionAfterNoReset(count, performed) ==
  IF performed THEN count ELSE count + 1

\* the no-action counter after a dispatch
NoActionAfter(count, performed) ==
  IF performed THEN 0 ELSE count + 1

\* a run that stops at the third no-action dispatch in a row
NoActionStopAtThree(count) == count >= 3

NoActionStop(count) == count >= 2

(***************************************************************************)
(* handleStepAction (navigator/stepHandler.ts), as the driver sees it: the *)
(* values of `performed` the procedure of an archetype can return on a     *)
(* document.  question: the confirm key is sent whenever no CTA was        *)
(* clicked, so performed is true; paywall: false; input without any field: *)
(* true after the no-input fallback; the other procedures report whether a *)
(* click succeeded, which needs a control to click.                        *)
(***************************************************************************)
\* a question procedure that reports, like the others, whether it clicked
PerformedValuesQuestionMayFail(type, d) ==
  CASE type = "paywall" -> {FALSE}
    [] type = "input" -> IF d.interactive THEN {TRUE, FALSE} ELSE {TRUE}
    [] OTHER -> IF d.interactive THEN {TRUE, FALSE} ELSE {FALSE}

PerformedValues(type, d) ==
  CASE type = "question" -> {TRUE}
    [] type = "paywall" -> {FALSE}
    [] type = "input" -> IF d.interactive THEN {TRUE, FALSE} ELSE {TRUE}
    [] OTHER -> IF d.interactive THEN {TRUE, FALSE} ELSE {FALSE}

\* outcomes of one call of handleStepAction: a result, or a raised error; the
\* error is raised by closeCommonPopups, the first call, or by the procedure
\* of the archetype after it
handleStepAction(type, d, isClosed) ==
  IF isClosed
  THEN {[kind |-> "throw", performed |-> FALSE, msg |-> m, at |-> "popups"] :
           m \in ClosureMessages}
  ELSE {[kind |-> "return", performed |-> b, msg |-> "none", at |-> "none"] :
           b \in PerformedValues(type, d)}
       \cup {[kind |-> "throw", performed |-> FALSE, msg |-> m, at |-> a] :
                m \in ErrorMessages, a \in {"popups", "action"}}

\* a dispatcher that goes to the procedure of the archetype at once
DispatchOpsWithoutPopups(o) == <<"dispatch">>

\* the operations of one call: closeCommonPopups, then the switch on the type
DispatchOps(o) ==
  IF o.at = "popups" THEN <<"popups">> ELSE <<"popups", "dispatch">>

(***************************************************************************)
(* Option selection (navigator/stepHandler.ts).  A selection has `count`   *)
(* candidates; smartAt is the position (from 0) of the first candidate     *)
(* whose text contains a smart keyword, or -1.  The result is the position *)
(* chosen and the cursor afterwards.                                       *)
(***************************************************************************)
Min(a, b) == IF a < b THEN a ELSE b

\* clickOptionWithLabel and clickFirstOptionButton: keyword, else rotation
\* over min(count, 4), else the only candidate
RotatingChoice(count, smartAt, shift) ==
  IF smartAt >= 0 THEN [chosen |-> smartAt, shift |-> shift]
  ELSE IF count >= 2 THEN [chosen |-> shift % Min(count, 4), shift |-> shift + 1]
  ELSE [chosen |-> 0, shift |-> shift]

\* clickFirstOptionCard: keyword, else the second card, else the only card
CardChoice(count, smartAt, shift) ==
  IF smartAt >= 0 THEN [chosen |-> smartAt, shift |-> shift]
  ELSE IF count >= 2 THEN [chosen |-> 1, shift |-> shift]
  ELSE [chosen |-> 0, shift |-> shift]

(***************************************************************************)
(* clickLocator (navigator/stepHandler.ts).  o gives, for each awaited     *)
(* call of the function, "ok" or the message of the error it raises.  The  *)
(* result lists the clicks attempted, in order.                            *)
(***************************************************************************)
ClickOutcomes ==
  [scroll : {"ok"} \cup ErrorMessages, wait : {"ok"} \cup ErrorMessages,
   click : {"ok"} \cup ErrorMessages, force : {"ok"} \cup ErrorMessages,
   invoke : {"ok"} \cup ErrorMessages]

\* the outer try block: scroll, wait, click
NormalClickTried(o) == o.scroll = "ok" /\ o.wait = "ok"

NormalClickDone(o) == NormalClickTried(o) /\ o.click = "ok"

\* clickLocator without its innermost catch
clickLocatorUncaught(o) ==
  LET first == IF NormalClickTried(o) THEN <<"click">> ELSE <<>> IN
  IF NormalClickDone(o)
  THEN [kind |-> "return", value |-> TRUE, attempts |-> first, error |-> "none"]
  ELSE IF o.force = "ok"
  THEN [kind |-> "return", value |-> TRUE, attempts |-> Append(first, "force"),
        error |-> "none"]
  ELSE IF o.invoke = "ok"
  THEN [kind |-> "return", value |-> TRUE,
        attempts |-> first \o <<"force", "invoke">>, error |-> "none"]
  ELSE [kind |-> "throw", value |-> FALSE,
        attempts |-> first \o <<"force", "invoke">>, error |-> o.invoke]

clickLocator(o) ==
  LET first == IF NormalClickTried(o) THEN <<"click">> ELSE <<>> IN
  IF NormalClickDone(o)
  THEN [kind |-> "return", value |-> TRUE, attempts |-> first, error |-> "none"]
  ELSE IF o.force = "ok"
  THEN [kind |-> "return", value |-> TRUE, attempts |-> Append(first, "force"),
        error |-> "none"]
  ELSE IF o.invoke = "ok"
  THEN [kind |-> "return", value |-> TRUE,
        attempts |-> first \o <<"force", "invoke">>, error |-> "none"]
  ELSE [kind |-> "return", value |-> FALSE,
        attempts |-> first \o <<"force", "invoke">>, error |-> "none"]

\* every awaited call of a click ends the same way
ClickAll(x) == [scroll |-> x, wait |-> x, click |-> x, force |-> x, invoke |-> x]

(***************************************************************************)
(* closeCommonPopups and clickFirstVisible (navigator/stepHandler.ts).  A  *)
(* control of a stage (1: a button with a full cookie phrase, 2: a consent *)
(* framework selector, 3: a close icon) is absent, hidden or visible.  A   *)
(* fault <<stage, name, message>> makes the awaited call `name` of that    *)
(* stage raise the message; <<0, "none", "ok">> is no fault.               *)
(***************************************************************************)
ControlStates == {"absent", "hidden", "visible"}

PopupPages == [1..3 -> ControlStates]

FaultyCalls == {"count", "isVisible", "click", "wait"}

NoFault == <<0, "none", "ok">>

Faults == {NoFault} \cup ((1..3) \X FaultyCalls \X ErrorMessages)

Raises(f, k, name) == f[1] = k /\ f[2] = name

\* clickFirstVisible on the selectors of stage k: count() and isVisible() are
\* awaited without a catch
clickFirstVisible(ctl, f, k) ==
  IF Raises(f, k, "count") THEN [kind |-> "throw", value |-> FALSE, error |-> f[3]]
  ELSE IF ctl = "absent" THEN [kind |-> "return", value |-> FALSE, error |-> "none"]
  ELSE IF Raises(f, k, "isVisible")
  THEN [kind |-> "throw", value |-> FALSE, error |-> f[3]]
  ELSE IF ctl = "hidden" THEN [kind |-> "return", value |-> FALSE, error |-> "none"]
  ELSE [kind |-> "return", error |-> "none",
        value |-> clickLocator(ClickAll(IF Raises(f, k, "click") THEN f[3]
                                        ELSE "ok")).value]

\* the loop over the cookie phrases: count() is awaited without a catch,
\* isVisible() with one
ClickPhraseButton(ctl, f) ==
  IF Raises(f, 1, "count") THEN [kind |-> "throw", value |-> FALSE, error |-> f[3]]
  ELSE IF ctl = "absent" \/ Raises(f, 1, "isVisible") \/ ctl = "hidden"
  THEN [kind |-> "return", value |-> FALSE, error |-> "none"]
  ELSE [kind |-> "return", error |-> "none",
        value |-> clickLocator(ClickAll(IF Raises(f, 1, "click") THEN f[3]
                                        ELSE "ok")).value]

PopupMessages ==
  <<"Closed cookie/popup via exact phrase", "Closed consent banner via framework selector.",
    "Clicked close icon.">>

\* one stage: the click, then the trace entry and the wait
PopupStage(st, k, pg, f) ==
  IF st.kind = "throw" THEN st
  ELSE LET c == IF k = 1 THEN ClickPhraseButton(pg[1], f)
                ELSE clickFirstVisible(pg[k], f, k)
       IN IF c.kind = "throw" THEN [st EXCEPT !.kind = "throw", !.error = c.error]
          ELSE IF ~c.value THEN st
          ELSE LET st1 == [st EXCEPT !.messages = Append(@, PopupMessages[k]),
                                     !.clicked = Append(@, k)]
               IN IF Raises(f, k, "wait")
                  THEN [st1 EXCEPT !.kind = "throw", !.error = f[3]]
                  ELSE st1

closeCommonPopups(pg, f) ==
  LET st0 == [kind |-> "return", messages |-> <<>>, clicked |-> <<>>,
              error |-> "none"]
  IN PopupStage(PopupStage(PopupStage(st0, 1, pg, f), 2, pg, f), 3, pg, f)

(***************************************************************************)
(* handleStepAction (navigator/stepHandler.ts) on a screen.  A screen has  *)
(* a cookie button (popup), radio controls, option buttons, option cards,  *)
(* a continue control (cta), text fields, an email field and a consent     *)
(* checkbox, bare or wrapped in a label, checked or not.  The screen stays *)
(* where it is: an interaction changes the popup and the consent checkbox  *)
(* only.  env: the fault of the popup closer, whether the click on a       *)
(* chosen radio, checkbox or button succeeds, whether a key press          *)
(* succeeds, and whether the email chain sees the document change.  No     *)
(* label holds a smart keyword.                                            *)
(***************************************************************************)
ConsentStates ==
  {"none", "bare unchecked", "bare checked", "label unchecked", "label checked"}

\* screens with options and no consent checkbox, and screens with a consent
\* checkbox and no options
Screens ==
  [popup : {"absent", "visible"}, radios : {0, 2}, buttons : {0, 2},
   cards : {0, 2}, cta : BOOLEAN, fields : {0, 1}, emailField : BOOLEAN,
   consent : {"none"}]
  \cup
  [popup : {"absent", "visible"}, radios : {0}, buttons : {0},
   cards : {0}, cta : BOOLEAN, fields : {0, 1}, emailField : BOOLEAN,
   consent : ConsentStates \ {"none"}]

DispatchFaults == {NoFault, <<1, "count", "Timeout 20000ms exceeded">>}

DispatchEnvs ==
  [fault : DispatchFaults, optionClickOk : BOOLEAN, keyOk : BOOLEAN,
   transition : BOOLEAN]

ConsentBoxes(sc) == IF sc.consent = "none" THEN 0 ELSE 1

ConsentChecked(sc) == sc.consent \in {"bare checked", "label checked"}

Checked(c) ==
  CASE c \in {"bare unchecked", "bare checked"} -> "bare checked"
    [] c \in {"label unchecked", "label checked"} -> "label checked"
    [] OTHER -> c

\* a click on the label that wraps the checkbox toggles it
Toggled(c) ==
  CASE c = "label unchecked" -> "label checked"
    [] c = "label checked" -> "label unchecked"
    [] OTHER -> c

\* the state a procedure threads through its calls
Started(sc, shift) ==
  [kind |-> "return", performed |-> FALSE, did |-> <<>>, tried |-> <<>>,
   option |-> "none", after |-> sc, shift |-> shift, error |-> "none"]

Did(st, what) == [st EXCEPT !.did = Append(@, what)]

Tried(st, what) == [st EXCEPT !.tried = Append(@, what)]

Thrown(st, msg) == [st EXCEPT !.kind = "throw", !.performed = FALSE, !.error = msg]

\* clickOptionWithLabel: the radio and checkbox controls, the consent checkbox
\* last in document order
OptionWithLabel(st, env) ==
  LET sc == st.after
      total == sc.radios + ConsentBoxes(sc)
      choice == RotatingChoice(total, -1, st.shift)
      st1 == [Tried(st, "radio") EXCEPT !.shift = choice.shift]
  IN IF total = 0 THEN Tried(st, "radio")
     ELSE IF ~env.optionClickOk THEN st1
     ELSE [Did(st1, "option") EXCEPT
             !.option = "radio",
             !.after.consent =
                IF ConsentBoxes(sc) = 1 /\ choice.chosen = total - 1
                THEN Checked(@) ELSE @]

\* clickFirstOptionButton: the visible buttons that are not navigation, the
\* continue control among them
OptionButton(st, env) ==
  LET sc == st.after
      total == sc.buttons + (IF sc.cta THEN 1 ELSE 0)
      choice == RotatingChoice(total, -1, st.shift)
      st1 == [Tried(st, "button") EXCEPT !.shift = choice.shift]
  IN IF total = 0 THEN Tried(st, "button")
     ELSE IF ~env.optionClickOk THEN st1
     ELSE [Did(st1, "option") EXCEPT !.option = "button"]

\* clickFirstOptionCard: the card is clicked by the in-page script
OptionCard(st, env) ==
  LET sc == st.after
      st1 == Tried(st, "card")
  IN IF sc.cards = 0 THEN st1
     ELSE [Did(st1, "option") EXCEPT !.option = "card"]

\* clickQuestionCta, clickContinue, the CTA texts of clickOtherCta
ClickCta(st) ==
  IF st.after.cta THEN Did(Tried(st, "cta"), "cta") ELSE Tried(st, "cta")

PressKey(st, env) ==
  IF env.keyOk THEN Did(Tried(st, "key"), "key") ELSE Tried(st, "key")

QuestionAction(st0, env) ==
  LET radioOrCheckboxCount == st0.after.radios + ConsentBoxes(st0.after)
      st1 == OptionWithLabel(st0, env)
      st2 == IF st1.option = "none" /\ radioOrCheckboxCount = 0
             THEN OptionButton(st1, env) ELSE st1
      st3 == IF st2.option = "none" /\ radioOrCheckboxCount = 0
             THEN OptionCard(st2, env) ELSE st2
      st4 == ClickCta(st3)
      clickedContinue == "cta" \in {st4.did[i] : i \in 1..Len(st4.did)}
      st5 == IF clickedContinue THEN st4 ELSE PressKey(st4, env)
  IN [st5 EXCEPT !.performed = TRUE]

\* the fallback of the procedures without a CTA: any visible button
ClickAnyButton(st) ==
  IF st.after.buttons > 0 THEN Did(Tried(st, "any button"), "any button")
  ELSE Tried(st, "any button")

InputAction(st0, env) ==
  IF st0.after.fields > 0
  THEN LET st1 == Did(Tried(st0, "fill"), "fill")
           st2 == ClickCta(st1)
       IN [st2 EXCEPT !.performed = TRUE]
  ELSE LET st1 == ClickCta(Tried(st0, "fill"))
           st2 == IF st0.after.cta THEN st1 ELSE ClickAnyButton(st1)
           st3 == IF st2.did = <<>> \/ st2.did = st0.did THEN Tried(st2, "wait")
                  ELSE st2
       IN [st3 EXCEPT !.performed = TRUE]

\* the consent checkboxes of the email procedure: the labels that wrap a
\* checkbox are clicked; without such labels the unchecked boxes are clicked
ConsentAction(st0) ==
  LET st == Tried(st0, "consent")
      c == st.after.consent
  IN
  IF c \in {"label unchecked", "label checked"}
  THEN [Did(Tried(st, "consent label"), "consent label") EXCEPT
          !.after.consent = Toggled(c)]
  ELSE IF c = "bare unchecked"
  THEN [Did(Tried(st, "consent box"), "consent box") EXCEPT
          !.after.consent = "bare checked"]
  ELSE st

\* an email procedure that returns as soon as the submit stage has seen the
\* document change
EmailActionStopsOnTransition(st0, env) ==
  LET sc == st0.after
      filled == sc.emailField \/ sc.fields > 0
      st1 == IF filled THEN PressKey(Did(Tried(st0, "fill"), "fill"), env)
             ELSE Tried(st0, "fill")
      emailTransitionDetected == sc.emailField /\ env.transition
      st2 == IF sc.emailField /\ ~env.transition THEN ClickCta(st1) ELSE st1
      st4 == ClickCta(ConsentAction(st2))
  IN IF emailTransitionDetected THEN [st1 EXCEPT !.performed = TRUE]
     ELSE [st4 EXCEPT !.performed = sc.cta]

EmailAction(st0, env) ==
  LET sc == st0.after
      filled == sc.emailField \/ sc.fields > 0
      st1 == IF filled THEN PressKey(Did(Tried(st0, "fill"), "fill"), env)
             ELSE Tried(st0, "fill")
      emailTransitionDetected == sc.emailField /\ env.transition
      \* the submit controls of runEmailSubmitChain
      st2 == IF sc.emailField /\ ~env.transition THEN ClickCta(st1) ELSE st1
      st3 == ConsentAction(st2)
      st4 == ClickCta(st3)
  IN [st4 EXCEPT !.performed = sc.cta \/ emailTransitionDetected]

InfoAction(st0, env) ==
  LET st1 == ClickCta(st0)
      st2 == IF st0.after.cta THEN st1 ELSE ClickAnyButton(st1)
  IN [st2 EXCEPT !.performed = st0.after.cta \/ st0.after.buttons > 0]

\* clickOtherCta
OtherAction(st0, env) ==
  LET st1 == ClickCta(st0)
      st2 == OptionButton(st1, env)
      st3 == OptionCard(st2, env)
      st4 == ClickAnyButton(st3)
  IN IF st0.after.cta THEN [st1 EXCEPT !.performed = TRUE]
     ELSE IF st2.option # "none" THEN [st2 EXCEPT !.performed = TRUE]
     ELSE IF st3.option # "none" THEN [st3 EXCEPT !.performed = TRUE]
     ELSE [st4 EXCEPT !.performed = st0.after.buttons > 0]

\* a paywall procedure that looks for a control to click
PaywallActionAsInfo(st0, env) == InfoAction(st0, env)

\* case "paywall": nothing is attempted
PaywallAction(st0, env) == [st0 EXCEPT !.performed = FALSE]

\* handleStepAction(page, type): the popup closer, then the switch
handleStepActionOn(type, sc, env, shift) ==
  LET popups == closeCommonPopups(<<sc.popup, "absent", "absent">>, env.fault)
      st0 == Tried(Started(sc, shift), "popups")
      st1 == IF popups.clicked = <<>> THEN st0
             ELSE [Did(st0, "popup") EXCEPT !.after.popup = "absent"]
  IN IF popups.kind = "throw" THEN Thrown(st1, popups.error)
     ELSE CASE type = "question" -> QuestionAction(st1, env)
            [] type = "input" -> InputAction(st1, env)
            [] type = "email" -> EmailAction(st1, env)
            [] type = "info" -> InfoAction(st1, env)
            [] type = "other" -> OtherAction(st1, env)
            [] type = "paywall" -> PaywallAction(st1, env)
            [] OTHER -> st1

(***************************************************************************)
(* The sites the addresses lead to.  A site is a funnel: the sequence of   *)
(* the documents it shows.  A visitor lands on any of them and only moves  *)
(* forward.                                                                *)
(***************************************************************************)
Funnel(url) ==
  CASE url = "https://paywall.example" -> <<PaywallDoc>>
    [] url = "https://blank.example" -> <<BlankDoc>>
    [] OTHER -> <<QuestionDoc, EmailDoc, BlankDoc, PaywallDoc>>

SiteDocs(url) == {Funnel(url)[i] : i \in 1..Len(Funnel(url))}

Position(url, d) == CHOOSE i \in 1..Len(Funnel(url)) : Funnel(url)[i] = d

\* the documents the site can show after an interaction with document d
Forward(url, d) ==
  {Funnel(url)[i] : i \in Position(url, d)..Len(Funnel(url))}

ShortSites == {"https://paywall.example", "https://blank.example"}

VARIABLES
  urls,            \* index.ts: the addresses to run
  index,           \* index.ts: number of addresses started
  summaries,       \* index.ts: the summaries returned so far
  aggregate,       \* results/summary.json, "none" until written
  pc,              \* position of the process
  doc,             \* the document the page shows
  closed,          \* page.isClosed()
  url,             \* runFunnel: the address of this run
  detectedTypes,   \* runFunnel
  reachedPaywall,  \* runFunnel
  totalSteps,      \* runFunnel
  step,            \* runFunnel: loop counter
  previousHash,    \* runFunnel
  sameHashCount,   \* runFunnel
  noActionCount,   \* runFunnel
  emailReached,    \* runFunnel
  classification,  \* classification.type of the current step, or "none"
  actionResult,    \* actionResult of the current step
  ops,             \* operations the current iteration has executed, in order
  gotoLog,         \* waitUntil of each page.goto of this run
  stopReason,      \* the reason the log records for the end of the run
  screenshots,     \* evidence sink: classified screenshots of this run
  classifiedDirs,  \* evidence sink: archetype directories written by this run
  iterations,      \* loop iterations of this run that passed the budget guards
  errors,          \* non-closure errors caught by the step's catch in this run
  hashChanged,     \* some fingerprint of this run differed from the one before
  everyStepPerformed, \* every step of this run so far was dispatched and
                   \* reported performed = true
  closureReported, \* the driver was told that the page is closed
  failedNav,       \* the addresses (by position) whose navigation failed twice
  page,            \* classifyScreen: the page handed to the classifier
  screenStep,      \* classifyScreen: the step number handed to the classifier
  screenType,      \* classifyScreen: the archetype returned
  snapA,           \* getStableDomSnapshot: a document state and its fingerprint
  snapB,           \* getStableDomSnapshot: another document state and its fingerprint
  fallbackOptionShift, \* stepHandler.ts: the rotation cursor
  selection,       \* stepHandler.ts: the last option selection, and the one before
  call,            \* stepHandler.ts: the function called last, with what it
                   \* finds on the page and how its awaited calls end
  effect,         \* stepHandler.ts: what that call did and returned or raised
  tasks,           \* the funnel runs in flight in one process: where each is
                   \* in its call of an option helper
  rotations        \* the cursor values the rotating selections have read

mainVars == <<urls, index, summaries, aggregate>>
pageVars == <<doc, closed>>
runVars == <<url, detectedTypes, reachedPaywall, totalSteps, screenshots, classifiedDirs>>
hashVars == <<previousHash, sameHashCount, hashChanged>>
stepVars == <<classification, actionResult, ops>>

\* the state of the classifier, of the fingerprint and of the option selection
auxVars == <<page, screenStep, screenType, snapA, snapB, fallbackOptionShift,
             selection, call, effect, tasks, rotations>>

taskVars == <<tasks, rotations>>

vars == <<urls, index, summaries, aggregate, pc, doc, closed, url, detectedTypes,
          reachedPaywall, totalSteps, step, previousHash, sameHashCount,
          noActionCount, emailReached, classification, actionResult, ops,
          gotoLog, stopReason, screenshots, classifiedDirs, iterations, errors,
          hashChanged, everyStepPerformed, closureReported, failedNav,
          page, screenStep, screenType, snapA, snapB, fallbackOptionShift,
          selection, call, effect, tasks, rotations>>

NoResult == [performed |-> FALSE, error |-> "none"]

InitRun ==
  /\ index = 0
  /\ summaries = <<>>
  /\ aggregate = "none"
  /\ pc = "main"
  /\ doc = BlankDoc
  /\ closed = FALSE
  /\ url = "none"
  /\ detectedTypes = {}
  /\ reachedPaywall = FALSE
  /\ totalSteps = 0
  /\ step = 0
  /\ previousHash = <<>>
  /\ sameHashCount = 0
  /\ noActionCount = 0
  /\ emailReached = FALSE
  /\ classification = "none"
  /\ actionResult = NoResult
  /\ ops = <<>>
  /\ gotoLog = <<>>
  /\ stopReason = "none"
  /\ screenshots = 0
  /\ classifiedDirs = {}
  /\ iterations = 0
  /\ errors = 0
  /\ hashChanged = FALSE
  /\ everyStepPerformed = TRUE
  /\ closureReported = FALSE
  /\ failedNav = {}

\* no page classified, no snapshot taken, no option selected yet
NoPage == [buttons |-> {}, langButtons |-> 0, text |-> {}, prices |-> 0,
           emailInputs |-> 0, textInputs |-> 0, radios |-> 0,
           hiddenEmail |-> FALSE]

NoSnapshot == [address |-> <<>>, markup |-> <<>>, hash |-> <<>>]

NoSelection == [path |-> "none", count |-> 0, smart |-> FALSE, chosen |-> 0,
                before |-> <<>>]

InitClassifier == page = NoPage /\ screenStep = 0 /\ screenType = "none"

InitSnapshots == snapA = NoSnapshot /\ snapB = NoSnapshot

InitSelection == fallbackOptionShift = 0 /\ selection = NoSelection

\* no function of the step handler called yet
NoCall == [fn |-> "none"]

NoOutcome == [kind |-> "none"]

\* the funnel runs one process has in flight
Tasks == {"run A", "run B"}

\* a run that is not inside an option helper; funnel counts the funnels the
\* run's worker has started
IdleTask(funnel) ==
  [pc |-> "idle", path |-> "none", seen |-> 0, how |-> "none", funnel |-> funnel]

InitTasks == tasks = [p \in Tasks |-> IdleTask(1)] /\ rotations = <<>>

InitCalls == call = NoCall /\ effect = NoOutcome /\ InitTasks

\* one address whose site can show every document
Init ==
  /\ urls = <<"https://funnel.example">>
  /\ InitRun /\ InitClassifier /\ InitSnapshots /\ InitSelection /\ InitCalls

\* several addresses, each leading to a site whose runs are short
InitMain ==
  /\ urls \in [1..NumUrls -> ShortSites]
  /\ InitRun /\ InitClassifier /\ InitSnapshots /\ InitSelection /\ InitCalls


(***************************************************************************)
(* The environment's choices.                                              *)
(***************************************************************************)
\* outcomes of an awaited browser call: "ok" or the message of the error raised
\* (mayFail: whether the bound still admits a non-closure error here)
CallOutcomes(isClosed, mayFail) ==
  IF isClosed THEN ClosureMessages
  ELSE {"ok"} \cup ClosureMessages
       \cup (IF mayFail THEN ErrorMessages \ ClosureMessages ELSE {})

\* the documents the page can show after an interaction
NavTargets == Forward(url, doc)

Navigate(d) == doc' = d

\* an error message of a closure means the page is closed from now on
ClosedAfter(outcome) == closed \/ outcome \in ClosureMessages

(***************************************************************************)
(* Control flow of the loop.                                               *)
(***************************************************************************)
\* break: leave the loop, to the finally block
Break(reason) ==
  /\ pc' = "finally"
  /\ stopReason' = reason
  /\ step' = step

\* continue, or the end of the loop body: the for-increment
Continue ==
  /\ pc' = "head"
  /\ stopReason' = stopReason
  /\ step' = step + 1

\* no catch around the step: every error ends the run as fatal
StepErrorEscapes(msg) == Break("fatal")

\* catch (stepError): stop on a closure message, else go on with the next step
StepCatch(msg) ==
  IF IndicatesClosure(msg) THEN Break("closed during step") ELSE Continue

\* no paywall branch: every captured step goes on to the fingerprint
AfterCaptureNoPaywallBranch(type) == "antiloop"

\* where the step goes once its evidence is stored
AfterCapture(type) == IF type = "paywall" THEN "paywall" ELSE "antiloop"

(***************************************************************************)
(* index.ts main: run the addresses in order, then write the aggregate.    *)
(***************************************************************************)
NextIndex(i) == i + 1

Aggregate(sums) ==
  LET n == Len(sums)
      reached == Cardinality({i \in 1..n : sums[i].reachedPaywall})
  IN [totalFunnels |-> n,
      funnelsReachedPaywall |-> reached,
      totalPaywallsCollected |-> reached]

\* main calls runFunnel(url): set-up up to the opened page
MainRunFunnel ==
  /\ pc = "main"
  /\ index < Len(urls)
  /\ index' = NextIndex(index)
  /\ url' = urls[index + 1]
  /\ pc' = "goto"
  \* a new run directory and a new log
  /\ gotoLog' = <<>>
  /\ stopReason' = "none"
  /\ screenshots' = 0
  /\ classifiedDirs' = {}
  /\ closureReported' = FALSE
  /\ UNCHANGED <<urls, summaries, aggregate, doc, closed, detectedTypes,
                 reachedPaywall, totalSteps, step, previousHash, sameHashCount,
                 noActionCount, emailReached, classification, actionResult, ops,
                 iterations, errors, hashChanged, everyStepPerformed, failedNav>>
  /\ UNCHANGED auxVars

MainDone ==
  /\ pc = "main"
  /\ index >= Len(urls)
  /\ aggregate' = Aggregate(summaries)
  /\ pc' = "exit"
  /\ UNCHANGED <<urls, index, summaries, doc, closed, url, detectedTypes,
                 reachedPaywall, totalSteps, step, previousHash, sameHashCount,
                 noActionCount, emailReached, classification, actionResult, ops,
                 gotoLog, stopReason, screenshots, classifiedDirs, iterations,
                 errors, hashChanged, everyStepPerformed, closureReported,
                 failedNav>>
  /\ UNCHANGED auxVars

(***************************************************************************)
(* runFunnel: navigation, with one retry.                                  *)
(***************************************************************************)
\* after "Opened url": the loop's locals
EnterLoop(d) ==
  /\ doc' = d
  /\ step' = 1
  /\ previousHash' = <<>>
  /\ sameHashCount' = 0
  /\ noActionCount' = 0
  /\ emailReached' = FALSE
  /\ pc' = "head"
  /\ stopReason' = stopReason

\* the retry repeats the strategy of the first attempt
RetrySameWaitUntil == "domcontentloaded"

\* waitUntil of the retry
RetryWaitUntil == "networkidle"

Goto ==
  /\ pc = "goto"
  /\ gotoLog' = Append(gotoLog, "domcontentloaded")
  /\ \/ \E d \in SiteDocs(url) : EnterLoop(d)
     \/ /\ pc' = "gotoRetry"
        /\ UNCHANGED <<doc, step, previousHash, sameHashCount, noActionCount,
                       emailReached, stopReason>>
  /\ UNCHANGED <<mainVars, runVars, stepVars, closed, iterations, errors,
                 hashChanged, everyStepPerformed, closureReported, failedNav>>
  /\ UNCHANGED auxVars

GotoRetry ==
  /\ pc = "gotoRetry"
  /\ gotoLog' = Append(gotoLog, RetryWaitUntil)
  /\ \/ /\ \E d \in SiteDocs(url) : EnterLoop(d)
        /\ UNCHANGED failedNav
     \/ \* throw retryError: the outer catch logs "Fatal error"
        /\ pc' = "finally"
        /\ stopReason' = "fatal"
        /\ failedNav' = failedNav \cup {index}
        /\ UNCHANGED <<doc, step, previousHash, sameHashCount, noActionCount,
                       emailReached>>
  /\ UNCHANGED <<mainVars, runVars, stepVars, closed, iterations, errors,
                 hashChanged, everyStepPerformed, closureReported>>
  /\ UNCHANGED auxVars


(***************************************************************************)
(* runFunnel: the loop.  An iteration is LoopHead, Classify, then          *)
(* PaywallStop or AntiLoop, Dispatch and TransitionWait.                   *)
(***************************************************************************)
\* the step's locals as a failed step leaves them
CatchStep(msg, opsNow, typeNow) ==
  /\ StepCatch(msg)
  /\ ops' = opsNow
  /\ classification' = typeNow
  /\ actionResult' = actionResult
  /\ closureReported' = (closureReported \/ msg \in ClosureMessages)

ErrorsAfter(msg) == IF msg \in ClosureMessages THEN errors ELSE errors + 1

\* the budget guards and the page.isClosed() check
LoopHead ==
  /\ pc = "head"
  /\ IF LoopBudgetExhausted(step, emailReached)
     THEN /\ Break("step budget exhausted")
          /\ UNCHANGED <<iterations, stepVars, closureReported>>
     ELSE /\ iterations' = iterations + 1
          /\ IF closed
             THEN /\ Break("closed externally")
                  /\ closureReported' = TRUE
                  /\ UNCHANGED stepVars
             ELSE /\ pc' = "classify"
                  /\ closureReported' = closureReported
                  /\ step' = step
                  /\ stopReason' = stopReason
                  /\ classification' = "none"
                  /\ actionResult' = DefaultActionResult
                  /\ ops' = <<>>
  /\ UNCHANGED <<mainVars, pageVars, runVars, hashVars, noActionCount,
                 emailReached, gotoLog, errors, everyStepPerformed, failedNav>>
  /\ UNCHANGED auxVars

\* a capture that counts the step without recording its type
CapturedWithoutType(type) ==
  /\ totalSteps' = totalSteps + 1
  /\ detectedTypes' = detectedTypes
  /\ emailReached' = emailReached
  /\ screenshots' = screenshots + 1
  /\ classifiedDirs' = classifiedDirs \cup {type}

\* what the step records once the screenshot is stored
Captured(type) ==
  /\ totalSteps' = totalSteps + 1
  /\ detectedTypes' = detectedTypes \cup {type}
  /\ emailReached' = (emailReached \/ type = "email")
  /\ screenshots' = screenshots + 1
  /\ classifiedDirs' = classifiedDirs \cup {type}

\* settle delay, classifyScreen, the STEP 01 override, screenshot and copy
Classify ==
  /\ pc = "classify"
  /\ \E o1 \in CallOutcomes(closed, errors < MaxStepErrors) :
       IF o1 # "ok"
       THEN /\ CatchStep(o1, ops, "none")
            /\ closed' = ClosedAfter(o1)
            /\ errors' = ErrorsAfter(o1)
            /\ everyStepPerformed' = FALSE
            /\ UNCHANGED <<runVars, emailReached>>
       ELSE LET type == ForcedNonPaywall(step, classifyScreen(doc, step)) IN
            \E o2 \in CallOutcomes(closed, errors < MaxStepErrors) :
              IF o2 # "ok"
              THEN /\ CatchStep(o2, Append(ops, "classify"), type)
                   /\ closed' = ClosedAfter(o2)
                   /\ errors' = ErrorsAfter(o2)
                   /\ everyStepPerformed' = FALSE
                   /\ UNCHANGED <<runVars, emailReached>>
              ELSE /\ Captured(type)
                   /\ classification' = type
                   /\ actionResult' = actionResult
                   /\ ops' = ops \o <<"classify", "capture">>
                   /\ pc' = AfterCapture(type)
                   /\ step' = step
                   /\ stopReason' = stopReason
                   /\ closed' \in {closed, TRUE}
                   /\ UNCHANGED <<url, reachedPaywall, errors, everyStepPerformed,
                                  closureReported>>
  /\ UNCHANGED <<mainVars, doc, hashVars, noActionCount, gotoLog, iterations,
                 failedNav>>
  /\ UNCHANGED auxVars

\* the paywall branch: price extraction, success mark, break
PaywallStop ==
  /\ pc = "paywall"
  /\ \E o \in CallOutcomes(closed, errors < MaxStepErrors) :
       IF o = "ok"
       THEN /\ reachedPaywall' = TRUE
            /\ ops' = Append(ops, "prices")
            /\ Break("paywall")
            /\ UNCHANGED <<classification, actionResult, closed, errors,
                           closureReported>>
       ELSE /\ CatchStep(o, ops, classification)
            /\ closed' = ClosedAfter(o)
            /\ errors' = ErrorsAfter(o)
            /\ UNCHANGED reachedPaywall
  /\ everyStepPerformed' = FALSE
  /\ UNCHANGED <<mainVars, doc, url, detectedTypes, totalSteps, screenshots,
                 classifiedDirs, hashVars, noActionCount, emailReached, gotoLog,
                 iterations, failedNav>>
  /\ UNCHANGED auxVars


\* fingerprint comparison, email stuck recovery, anti-loop check
AntiLoop ==
  /\ pc = "antiloop"
  /\ LET domHash == getStableDomSnapshot(closed, doc, step)
         same1 == SameHashAfter(sameHashCount, domHash, previousHash)
         differs == previousHash # <<>> /\ domHash # previousHash
         stuck == EmailLooksStuck(classification, same1)
     IN
     \E d1 \in (IF stuck THEN Forward(url, doc) ELSE {doc}),
        o1 \in (IF stuck THEN CallOutcomes(closed, errors < MaxStepErrors) ELSE {"ok"}) :
       LET rescueHash == getStableDomSnapshot(closed, d1, step)
           recovered == stuck /\ rescueHash # domHash
           same2 == IF recovered THEN 1 ELSE same1
           prev2 == IF recovered THEN rescueHash ELSE domHash
           ops1 == IF stuck THEN ops \o <<"fingerprint", "email rescue">>
                   ELSE Append(ops, "fingerprint")
       IN
       IF o1 # "ok"
       THEN \* the wait after the rescue key press raised
            /\ CatchStep(o1, ops1, classification)
            /\ closed' = ClosedAfter(o1)
            /\ errors' = ErrorsAfter(o1)
            /\ doc' = d1
            /\ sameHashCount' = same1
            /\ previousHash' = domHash
            /\ hashChanged' = (hashChanged \/ differs)
            /\ everyStepPerformed' = FALSE
       ELSE IF AntiLoopTriggered(same2, noActionCount)
       THEN \E d2 \in (IF step >= 8 THEN Forward(url, d1) ELSE {d1}),
               o2 \in (IF step >= 8 THEN CallOutcomes(closed, errors < MaxStepErrors)
                       ELSE {"ok"}) :
              LET loopHash == getStableDomSnapshot(closed, d2, step)
                  ops2 == IF step >= 8 THEN Append(ops1, "loop rescue") ELSE ops1
              IN
              /\ doc' = d2
              /\ IF o2 # "ok"
                 THEN /\ CatchStep(o2, ops2, classification)
                      /\ everyStepPerformed' = FALSE
                      /\ closed' = ClosedAfter(o2)
                      /\ errors' = ErrorsAfter(o2)
                      /\ sameHashCount' = same2
                      /\ previousHash' = prev2
                      /\ hashChanged' = (hashChanged \/ differs \/ recovered)
                 ELSE IF step >= 8 /\ loopHash # domHash
                 THEN /\ sameHashCount' = 1
                      /\ previousHash' = loopHash
                      /\ hashChanged' = TRUE
                      /\ Continue
                      /\ ops' = ops2
                      /\ UNCHANGED <<classification, actionResult, closed, errors,
                                     everyStepPerformed, closureReported>>
                 ELSE /\ sameHashCount' = same2
                      /\ previousHash' = prev2
                      /\ hashChanged' = (hashChanged \/ differs \/ recovered)
                      /\ Break("loop detected")
                      /\ ops' = ops2
                      /\ UNCHANGED <<classification, actionResult, closed, errors,
                                     everyStepPerformed, closureReported>>
       ELSE /\ pc' = "dispatch"
            /\ step' = step
            /\ stopReason' = stopReason
            /\ ops' = ops1
            /\ doc' = d1
            /\ sameHashCount' = same2
            /\ previousHash' = prev2
            /\ hashChanged' = (hashChanged \/ differs \/ recovered)
            /\ UNCHANGED <<classification, actionResult, closed, errors,
                           everyStepPerformed, closureReported>>
  /\ UNCHANGED <<mainVars, runVars, noActionCount, emailReached, gotoLog, iterations,
                 failedNav>>
  /\ UNCHANGED auxVars

\* handleStepAction in its try/catch, and the no-action rule
Dispatch ==
  /\ pc = "dispatch"
  /\ \E o \in handleStepAction(classification, doc, closed) :
     \E d \in (IF doc.interactive \/ o.performed THEN NavTargets ELSE {doc}) :
       /\ ops' = ops \o DispatchOps(o)
       /\ closureReported' =
            (closureReported \/ (o.kind = "throw" /\ o.msg \in ClosureMessages))
       /\ IF o.kind = "throw" /\ IndicatesClosure(o.msg)
          THEN /\ Break("closed during action")
               /\ actionResult' = [DefaultActionResult EXCEPT !.error = o.msg]
               /\ closed' = TRUE
               /\ everyStepPerformed' = FALSE
               /\ UNCHANGED <<doc, noActionCount>>
          ELSE LET res == IF o.kind = "throw"
                          THEN [DefaultActionResult EXCEPT !.error = o.msg]
                          ELSE [performed |-> o.performed, error |-> "none"]
                   count == NoActionAfter(noActionCount, res.performed)
               IN
               /\ actionResult' = res
               /\ Navigate(d)
               /\ noActionCount' = count
               /\ everyStepPerformed' = (everyStepPerformed /\ res.performed)
               /\ IF ~res.performed
                  THEN IF NoActionStop(count)
                       THEN Break("no action") /\ closed' = closed
                       ELSE Continue /\ closed' \in {closed, TRUE}
                  ELSE /\ pc' = "transition"
                       /\ step' = step
                       /\ stopReason' = stopReason
                       /\ closed' = closed
  /\ UNCHANGED <<mainVars, runVars, hashVars, emailReached, classification,
                 gotoLog, iterations, errors, failedNav>>
  /\ UNCHANGED auxVars

\* waitForPageTransition and the step's log entry
TransitionWait ==
  /\ pc = "transition"
  /\ \E o \in CallOutcomes(closed, errors < MaxStepErrors) :
       IF o = "ok"
       THEN /\ Continue
            /\ ops' = Append(ops, "transition")
            /\ closed' \in {closed, TRUE}
            /\ UNCHANGED <<classification, actionResult, closureReported, errors>>
       ELSE /\ CatchStep(o, ops, classification)
            /\ closed' = ClosedAfter(o)
            /\ errors' = ErrorsAfter(o)
  /\ UNCHANGED <<mainVars, doc, runVars, hashVars, noActionCount,
                 emailReached, gotoLog, iterations, everyStepPerformed,
                 failedNav>>
  /\ UNCHANGED auxVars

\* a summary that counts the iterations of the loop, not the captured steps
SummaryCountsIterations ==
  [url |-> url, totalSteps |-> iterations, detectedTypes |-> detectedTypes,
   reachedPaywall |-> reachedPaywall]

\* the finally block returns the summary; main appends it
Summary ==
  [url |-> url, totalSteps |-> totalSteps, detectedTypes |-> detectedTypes,
   reachedPaywall |-> reachedPaywall]

Finally ==
  /\ pc = "finally"
  /\ summaries' = Append(summaries, Summary)
  /\ pc' = "main"
  \* context.close(), browser.close(): the run's state is gone
  /\ doc' = BlankDoc
  /\ closed' = FALSE
  /\ url' = "none"
  /\ detectedTypes' = {}
  /\ reachedPaywall' = FALSE
  /\ totalSteps' = 0
  /\ iterations' = 0
  /\ errors' = 0
  /\ step' = 0
  /\ previousHash' = <<>>
  /\ sameHashCount' = 0
  /\ noActionCount' = 0
  /\ emailReached' = FALSE
  /\ hashChanged' = FALSE
  /\ everyStepPerformed' = TRUE
  /\ classification' = "none"
  /\ actionResult' = NoResult
  /\ ops' = <<>>
  /\ UNCHANGED <<urls, index, aggregate, gotoLog, stopReason, screenshots,
                 classifiedDirs, closureReported, failedNav>>
  /\ UNCHANGED auxVars

Next ==
  \/ MainRunFunnel
  \/ MainDone
  \/ Goto
  \/ GotoRetry
  \/ LoopHead
  \/ Classify
  \/ PaywallStop
  \/ AntiLoop
  \/ Dispatch
  \/ TransitionWait
  \/ Finally

Spec == Init /\ [][Next]_vars

SpecMain == InitMain /\ [][Next]_vars

(***************************************************************************)
(* classifyScreen on its own: any page, classified at step 1, 2, ...       *)
(***************************************************************************)
\* the variables of the funnel run
runStateVars ==
  <<urls, index, summaries, aggregate, pc, doc, closed, url, detectedTypes,
    reachedPaywall, totalSteps, step, previousHash, sameHashCount,
    noActionCount, emailReached, classification, actionResult, ops,
    gotoLog, stopReason, screenshots, classifiedDirs, iterations, errors,
    hashChanged, everyStepPerformed, closureReported, failedNav>>

InitClassify ==
  /\ urls = <<>>
  /\ InitRun /\ InitSnapshots /\ InitSelection /\ InitCalls
  /\ page \in Pages
  /\ screenStep = 1
  /\ screenType = classifyPage(page, 1)

\* the same page, classified at the next step number
ClassifyAtNextStep ==
  /\ screenStep < MaxClassifyStep
  /\ screenStep' = screenStep + 1
  /\ screenType' = classifyPage(page, screenStep + 1)
  /\ UNCHANGED <<page, snapA, snapB, fallbackOptionShift, selection, call,
                 effect, runStateVars, taskVars>>

NextClassify == ClassifyAtNextStep

SpecClassify == InitClassify /\ [][NextClassify]_vars

(***************************************************************************)
(* getStableDomSnapshot on its own: the fingerprints of two consecutive    *)
(* document states, as the loop compares them.                             *)
(***************************************************************************)
InitFingerprint ==
  /\ urls = <<>>
  /\ InitRun /\ InitClassifier /\ InitSelection /\ InitCalls
  /\ snapA = NoSnapshot
  /\ snapB \in Snapshots

\* the page changes (or not), and the next fingerprint is taken
TakeSnapshot ==
  /\ snapA' = snapB
  /\ snapB' \in Snapshots
  /\ UNCHANGED <<page, screenStep, screenType, fallbackOptionShift, selection,
                 call, effect, runStateVars, taskVars>>

NextFingerprint == TakeSnapshot

SpecFingerprint == InitFingerprint /\ [][NextFingerprint]_vars

(***************************************************************************)
(* Option selection on its own: consecutive selections of one process, on  *)
(* radio or checkbox controls, option buttons or option cards.             *)
(***************************************************************************)
InitRotation ==
  /\ urls = <<>>
  /\ InitRun /\ InitClassifier /\ InitSnapshots /\ InitSelection /\ InitCalls

\* what is kept of a selection when the next one is made
Earlier(sel) ==
  IF sel.path = "none" THEN <<>>
  ELSE <<[count |-> sel.count, smart |-> sel.smart, chosen |-> sel.chosen]>>

\* the loop over the candidates breaks at the first one with a smart keyword
FirstSmart(keywords) ==
  IF keywords = {} THEN -1
  ELSE CHOOSE i \in keywords : \A j \in keywords : i <= j

\* keywords: the positions of the candidates whose text has a smart keyword
Selected(path, count, keywords, choice) ==
  /\ choice.shift <= MaxSelections
  /\ fallbackOptionShift' = choice.shift
  /\ selection' = [path |-> path, count |-> count, smart |-> keywords # {},
                   chosen |-> choice.chosen, before |-> Earlier(selection),
                   keywords |-> keywords, shift |-> fallbackOptionShift]
  /\ UNCHANGED <<page, screenStep, screenType, snapA, snapB, call, effect,
                 runStateVars, taskVars>>

SelectRadioOrCheckbox ==
  \E count \in 1..MaxCandidates :
    \E keywords \in SUBSET (0..(count - 1)) :
      Selected("radio", count, keywords,
               RotatingChoice(count, FirstSmart(keywords), fallbackOptionShift))

SelectOptionButton ==
  \E count \in 1..MaxCandidates :
    \E keywords \in SUBSET (0..(count - 1)) :
      Selected("button", count, keywords,
               RotatingChoice(count, FirstSmart(keywords), fallbackOptionShift))

SelectOptionCard ==
  \E count \in 1..MaxCandidates :
    \E keywords \in SUBSET (0..(count - 1)) :
      Selected("card", count, keywords,
               CardChoice(count, FirstSmart(keywords), fallbackOptionShift))

NextRotation ==
  \/ SelectRadioOrCheckbox
  \/ SelectOptionButton
  \/ SelectOptionCard

SpecRotation == InitRotation /\ [][NextRotation]_vars

(***************************************************************************)
(* clickLocator on its own: one click after the other, each with its own   *)
(* outcomes of the awaited calls.                                          *)
(***************************************************************************)
InitClick ==
  /\ urls = <<>>
  /\ InitRun /\ InitClassifier /\ InitSnapshots /\ InitSelection /\ InitCalls

ClickLocator ==
  /\ \E o \in ClickOutcomes :
       /\ call' = [fn |-> "clickLocator", o |-> o]
       /\ effect' = clickLocator(o)
  /\ UNCHANGED <<page, screenStep, screenType, snapA, snapB, fallbackOptionShift,
                 selection, runStateVars, taskVars>>

NextClick == ClickLocator

SpecClick == InitClick /\ [][NextClick]_vars

(***************************************************************************)
(* closeCommonPopups on its own: any popup controls, any single fault.     *)
(***************************************************************************)
InitPopups ==
  /\ urls = <<>>
  /\ InitRun /\ InitClassifier /\ InitSnapshots /\ InitSelection /\ InitCalls

CloseCommonPopups ==
  /\ \E pg \in PopupPages, f \in Faults :
       /\ call' = [fn |-> "closeCommonPopups", page |-> pg, fault |-> f]
       /\ effect' = closeCommonPopups(pg, f)
  /\ UNCHANGED <<page, screenStep, screenType, snapA, snapB, fallbackOptionShift,
                 selection, runStateVars, taskVars>>

NextPopups == CloseCommonPopups

SpecPopups == InitPopups /\ [][NextPopups]_vars

(***************************************************************************)
(* handleStepAction on its own: dispatches of any archetype, one after the *)
(* other on the screen as the dispatch before left it.                     *)
(***************************************************************************)
InitDispatch ==
  /\ urls = <<>>
  /\ InitRun /\ InitClassifier /\ InitSnapshots /\ InitSelection
  /\ call = NoCall
  /\ effect \in {Started(sc, 0) : sc \in Screens}
  /\ InitTasks

HandleStepAction ==
  /\ \E type \in ScreenTypes, env \in DispatchEnvs :
       /\ effect' = handleStepActionOn(type, effect.after, env, fallbackOptionShift)
       /\ effect'.shift <= MaxDispatchSelections
       /\ fallbackOptionShift' = effect'.shift
       /\ call' = [fn |-> "handleStepAction", type |-> type, env |-> env,
                   screen |-> effect.after, shift |-> fallbackOptionShift]
  /\ UNCHANGED <<page, screenStep, screenType, snapA, snapB, selection,
                 runStateVars, taskVars>>

NextDispatch == HandleStepAction

SpecDispatch == InitDispatch /\ [][NextDispatch]_vars

(***************************************************************************)
(* Funnel runs of one process, interleaved.  The process has one thread:   *)
(* a run gives way to another only at an awaited call.  An option helper   *)
(* awaits while it collects its candidates and again when it clicks; the   *)
(* choice between them, cursor read and increment included, has no await.  *)
(* runFunnel and index.ts never refer to the cursor.                       *)
(***************************************************************************)
InitInterleaved ==
  /\ urls = <<>>
  /\ InitRun /\ InitClassifier /\ InitSnapshots /\ InitSelection /\ InitCalls

\* a read of the cursor taken when the helper was called
CursorReadAtCall(p) == tasks[p].seen

\* the cursor as the choice reads it
CursorRead(p) == fallbackOptionShift

\* which rule of the helper picks the candidate
HowChosen(path, count, keywords) ==
  IF keywords # {} THEN "keyword"
  ELSE IF count >= 2 THEN (IF path = "card" THEN "second card" ELSE "rotate")
  ELSE "sole"

\* a run calls clickOptionWithLabel, clickFirstOptionButton or
\* clickFirstOptionCard and awaits the candidates
CallOptionHelper(p) ==
  /\ tasks[p].pc = "idle"
  /\ \E path \in {"radio", "button", "card"} :
       tasks' = [tasks EXCEPT ![p] = [@ EXCEPT !.pc = "collecting",
                                               !.path = path,
                                               !.seen = fallbackOptionShift]]
  /\ UNCHANGED <<rotations, fallbackOptionShift>>

\* the candidates are there: keyword loop, rotation, sole candidate
ChooseOption(p) ==
  /\ tasks[p].pc = "collecting"
  /\ \E count \in 1..MaxCandidates :
       \E keywords \in SUBSET (0..(count - 1)) :
         LET path == tasks[p].path
             how == HowChosen(path, count, keywords)
             choice == IF path = "card"
                       THEN CardChoice(count, FirstSmart(keywords), CursorRead(p))
                       ELSE RotatingChoice(count, FirstSmart(keywords), CursorRead(p))
         IN
         /\ choice.shift <= MaxRotations
         /\ fallbackOptionShift' = choice.shift
         /\ rotations' = IF how = "rotate" THEN Append(rotations, CursorRead(p))
                         ELSE rotations
         /\ tasks' = [tasks EXCEPT ![p] = [@ EXCEPT !.pc = "clicking", !.how = how]]

\* the click of the chosen candidate is over and the helper returns
ReturnFromHelper(p) ==
  /\ tasks[p].pc = "clicking"
  /\ tasks' = [tasks EXCEPT ![p] = IdleTask(@.funnel)]
  /\ UNCHANGED <<rotations, fallbackOptionShift>>

\* a start of the next funnel that puts the cursor back to 0
NextFunnelResetsCursor(p) ==
  /\ tasks[p].pc = "idle"
  /\ tasks[p].funnel < MaxFunnels
  /\ tasks' = [tasks EXCEPT ![p] = IdleTask(@.funnel + 1)]
  /\ fallbackOptionShift' = 0
  /\ UNCHANGED rotations

\* the run ends and its worker starts runFunnel for the next address
NextFunnel(p) ==
  /\ tasks[p].pc = "idle"
  /\ tasks[p].funnel < MaxFunnels
  /\ tasks' = [tasks EXCEPT ![p] = IdleTask(@.funnel + 1)]
  /\ UNCHANGED <<rotations, fallbackOptionShift>>

NextInterleaved ==
  /\ \/ \E p \in Tasks : CallOptionHelper(p)
     \/ \E p \in Tasks : ChooseOption(p)
     \/ \E p \in Tasks : ReturnFromHelper(p)
     \/ \E p \in Tasks : NextFunnel(p)
  /\ UNCHANGED <<page, screenStep, screenType, snapA, snapB, selection, call,
                 effect, runStateVars>>

SpecInterleaved == InitInterleaved /\ [][NextInterleaved]_vars

(***************************************************************************)
(* Properties.                                                             *)
(***************************************************************************)
Range(seq) == {seq[i] : i \in 1..Len(seq)}

\* an upper bound on the number of steps the process can still take: the
\* addresses not yet started, then the position within the run
Measure ==
  LET B == maxSteps + 16
      RunCost == 6 * B + 4
      rank == CASE pc = "head" -> 5
                [] pc = "classify" -> 4
                [] pc \in {"paywall", "antiloop"} -> 3
                [] pc = "dispatch" -> 2
                [] OTHER -> 1
      inRun == CASE pc = "goto" -> 6 * B + 3
                 [] pc = "gotoRetry" -> 6 * B + 2
                 [] pc = "finally" -> 1
                 [] OTHER -> 2 + 6 * (B - step) + rank
  IN CASE pc = "exit" -> 0
       [] pc = "main" -> 1 + (Len(urls) - index) * RunCost
       [] OTHER -> 1 + (Len(urls) - index) * RunCost + inRun

\* C1: the loop body is entered at most maxSteps times while no step was
\* classified email and at most maxSteps + 15 times at all, and the process
\* terminates: every step it takes lowers a measure that is never negative,
\* and it is never stuck before the end of main.
C1_BoundedAndTerminates ==
  /\ [](iterations <= maxSteps + 15)
  /\ [](("email" \notin detectedTypes) => iterations <= maxSteps)
  /\ [](Measure >= 0)
  /\ [][Measure' < Measure]_vars
  /\ [](pc # "exit" => ENABLED Next)

C1_Witness ==
  /\ pc = "finally"
  /\ stopReason = "step budget exhausted"
  /\ "email" \in detectedTypes
  /\ iterations = maxSteps + 15

\* C2 as stated: a step classified paywall is the last step of the run and
\* ends it with reachedPaywall = true, without fingerprint or dispatch.
C2_PaywallAlwaysStops ==
  classification = "paywall" =>
    /\ pc \in {"paywall", "finally", "main", "exit"}
    /\ pc # "paywall" => (reachedPaywall /\ stopReason = "paywall")
    /\ "fingerprint" \notin Range(ops)
    /\ "dispatch" \notin Range(ops)

\* C2, amended: a step classified paywall whose price extraction completed
\* is the last step and ends the run with reachedPaywall = true; a step
\* classified paywall never reaches the fingerprint comparison or the
\* dispatcher, whether it ends the run or fails; reachedPaywall is set by
\* such a step only.
C2_PaywallStopsUnlessStepFails ==
  /\ (classification = "paywall" /\ "prices" \in Range(ops)) =>
        (pc = "finally" /\ reachedPaywall /\ stopReason = "paywall")
  /\ classification = "paywall" =>
        /\ pc \in {"paywall", "finally", "head"}
        /\ "fingerprint" \notin Range(ops)
        /\ "dispatch" \notin Range(ops)
        /\ pc = "head" => (~reachedPaywall /\ actionResult.error = "none")
  /\ pc \in {"antiloop", "dispatch", "transition"} => classification # "paywall"
  /\ reachedPaywall =>
        (pc = "finally" /\ classification = "paywall" /\ stopReason = "paywall")

C2_Witness ==
  /\ pc = "finally"
  /\ classification = "paywall"
  /\ ops = <<"classify", "capture", "prices">>
  /\ reachedPaywall
  /\ step >= 2

\* a dispatch step: the dispatcher was called and the no-action rule applied
DispatchStep == pc = "dispatch" /\ pc' # "dispatch"

\* C3: a dispatch that reports performed = false adds one to noActionCount,
\* one that reports performed = true resets it to 0 and is followed by the
\* transition wait; nothing else changes the counter during a run; the run
\* stops by the no-action rule exactly when the counter reaches 2, and after
\* a first no-action step the driver is at the head of the next step.
C3_NoActionCounter ==
  /\ [][(DispatchStep /\ actionResult'.error = "none") =>
          IF actionResult'.performed
          THEN noActionCount' = 0 /\ pc' = "transition" /\ step' = step
          ELSE /\ noActionCount' = noActionCount + 1
               /\ IF noActionCount' = 2
                  THEN pc' = "finally" /\ stopReason' = "no action" /\ step' = step
                  ELSE pc' = "head" /\ step' = step + 1]_vars
  /\ [][(pc \notin {"dispatch", "finally", "goto", "gotoRetry"}) =>
          noActionCount' = noActionCount]_vars
  /\ [](noActionCount \in {0, 1, 2})
  /\ [](noActionCount = 2 <=> (pc = "finally" /\ stopReason = "no action"))

C3_Witness ==
  /\ pc = "finally"
  /\ stopReason = "no action"
  /\ noActionCount = 2
  /\ actionResult = [performed |-> FALSE, error |-> "none"]
  /\ step >= 3
  /\ totalSteps = step

\* C4: a run in which the fingerprint never changed and every step was
\* dispatched with performed = true is not stopped by loop detection nor by
\* the no-action rule, however often the fingerprint repeated: it ends when
\* the step budget is exhausted, or because the page was found closed.
C4_StaticButActingRunsToBudget ==
  (pc = "finally" /\ everyStepPerformed /\ ~hashChanged /\ stopReason # "fatal") =>
    /\ stopReason \notin {"loop detected", "no action", "paywall"}
    /\ ~closureReported =>
         /\ stopReason = "step budget exhausted"
         /\ iterations = IF emailReached THEN maxSteps + 15 ELSE maxSteps
         /\ sameHashCount = iterations

C4_Witness ==
  /\ pc = "finally"
  /\ everyStepPerformed
  /\ ~hashChanged
  /\ stopReason = "step budget exhausted"
  /\ sameHashCount = maxSteps
  /\ sameHashCount > sameDomHashLimit
  /\ totalSteps = maxSteps

\* C5 as stated: loop detection is triggered on its own, by a fingerprint
\* repeated sameDomHashLimit times together with two consecutive no-action
\* steps; so a run that ended with both signals present was ended by loop
\* detection.
C5_LoopDetectionStopsStuckRuns ==
  (pc = "finally" /\ sameHashCount >= sameDomHashLimit /\ noActionCount >= 2) =>
    stopReason = "loop detected"

\* C6: at step 1 the recorded archetype is never paywall (the driver turns a
\* paywall classification of step 1 into other), so reachedPaywall is never
\* set at step 1 and paywall enters detectedTypes at step 2 at the earliest.
C6_NoPaywallAtStepOne ==
  /\ \A t \in ScreenTypes :
       ForcedNonPaywall(1, t) = IF t = "paywall" THEN "other" ELSE t
  /\ \A d \in Docs : ForcedNonPaywall(1, classifyScreen(d, 1)) # "paywall"
  /\ step <= 1 => classification # "paywall"
  /\ reachedPaywall => step >= 2
  /\ "paywall" \in detectedTypes => step >= 2
  /\ "paywall" \in classifiedDirs => (step >= 2 \/ pc \in {"main", "exit"})

C6_Witness ==
  /\ step = 1
  /\ doc = PaywallDoc
  /\ strongPaywallSignal(doc, 2)
  /\ classification \in ScreenTypes \ {"paywall"}
  /\ detectedTypes = {classification}
  /\ pc = "antiloop"

ClosedReasons == {"closed externally", "closed during step", "closed during action"}

\* the run of the address last started has returned to main
RunReturned == pc \in {"main", "exit"} /\ index >= 1

\* C7 as stated: every started run returns a summary whose totalSteps,
\* detectedTypes and reachedPaywall are those of the steps that completed
\* classification and capture: the number of stored screenshots, the
\* archetypes stored, and whether one of them is paywall.
C7_SummaryIsCapturedSteps ==
  /\ pc \in {"main", "exit"} => Len(summaries) = index
  /\ RunReturned =>
       /\ summaries[index].totalSteps = screenshots
       /\ summaries[index].detectedTypes = classifiedDirs
       /\ summaries[index].reachedPaywall = ("paywall" \in classifiedDirs)
       /\ index \in failedNav =>
            summaries[index] = [url |-> urls[index], totalSteps |-> 0,
                                detectedTypes |-> {}, reachedPaywall |-> FALSE]

\* C7, amended: every started run returns a summary, whatever ended it;
\* totalSteps and detectedTypes are those of the steps that completed
\* classification and capture; reachedPaywall is true exactly when the run
\* was ended by a paywall step whose price extraction completed, and then
\* paywall is among detectedTypes; after a failed navigation the summary
\* has 0 steps, no archetype and reachedPaywall = false.
C7_SummaryForEveryOutcome ==
  /\ pc \in {"main", "exit"} => Len(summaries) = index
  /\ pc \notin {"main", "exit"} => Len(summaries) = index - 1
  /\ RunReturned =>
       /\ summaries[index].url = urls[index]
       /\ summaries[index].totalSteps = screenshots
       /\ summaries[index].detectedTypes = classifiedDirs
       /\ summaries[index].reachedPaywall = (stopReason = "paywall")
       /\ summaries[index].reachedPaywall => "paywall" \in classifiedDirs
       /\ index \in failedNav =>
            summaries[index] = [url |-> urls[index], totalSteps |-> 0,
                                detectedTypes |-> {}, reachedPaywall |-> FALSE]

C7_Witness ==
  /\ RunReturned
  /\ stopReason = "closed during step"
  /\ summaries[index].totalSteps >= 2
  /\ "paywall" \in summaries[index].detectedTypes
  /\ ~summaries[index].reachedPaywall

\* C8: once the driver was told that the page is closed (isClosed at the
\* start of a step, or a closure message raised by the action or by any
\* other operation of a step) the run is over: the loop is left with a
\* closure as the recorded reason, and the run returns its summary.
C8_ClosureStopsRun ==
  /\ closureReported =>
       /\ pc \in {"finally", "main", "exit"}
       /\ stopReason \in ClosedReasons
  /\ (closureReported /\ pc \in {"main", "exit"}) => Len(summaries) = index
  /\ stopReason \in ClosedReasons => closureReported

C8_Witness ==
  /\ closureReported
  /\ RunReturned
  /\ stopReason = "closed during action"
  /\ summaries[index].totalSteps >= 2

\* C9: a run navigates once, and once more with the lenient strategy when
\* that failed, never a third time; when the retry fails too no step is
\* executed and the summary has totalSteps = 0 and reachedPaywall = false;
\* main runs every address, in order, whichever navigations failed.
C9_NavigationRetriedOnce ==
  /\ gotoLog \in {<<>>, <<"domcontentloaded">>, <<"domcontentloaded", "networkidle">>}
  /\ pc = "gotoRetry" => gotoLog = <<"domcontentloaded">>
  /\ stopReason = "fatal" =>
       /\ index \in failedNav
       /\ gotoLog = <<"domcontentloaded", "networkidle">>
       /\ iterations = 0 /\ totalSteps = 0 /\ screenshots = 0
  /\ \A i \in failedNav :
       i <= Len(summaries) =>
         (summaries[i].totalSteps = 0 /\ ~summaries[i].reachedPaywall)
  /\ index <= Len(urls)
  /\ \A i \in 1..Len(summaries) : summaries[i].url = urls[i]
  /\ pc = "exit" =>
       (Len(summaries) = Len(urls) /\ aggregate.totalFunnels = Len(urls))

C9_Witness ==
  /\ pc = "exit"
  /\ 1 \in failedNav
  /\ Len(summaries) = NumUrls
  /\ summaries[NumUrls].totalSteps >= 1

\* C10: a dispatch that raises an error which does not indicate closure is
\* handled as performed = false: noActionCount grows by one, the run stops
\* (by the no-action rule, not as fatal) if that makes 2, and otherwise goes
\* on with the next step.
C10_DispatchErrorIsNoAction ==
  [][(DispatchStep /\ actionResult'.error \in ErrorMessages
        /\ ~IndicatesClosure(actionResult'.error)) =>
       /\ ~actionResult'.performed
       /\ noActionCount' = noActionCount + 1
       /\ IF noActionCount = 1
          THEN pc' = "finally" /\ stopReason' = "no action" /\ step' = step
          ELSE pc' = "head" /\ stopReason' = stopReason /\ step' = step + 1]_vars

C10_Witness ==
  /\ pc = "head"
  /\ noActionCount = 1
  /\ actionResult = [performed |-> FALSE, error |-> "Timeout 20000ms exceeded"]
  /\ ops[Len(ops)] = "dispatch"

\* the number of dispatches among the operations of a step
Dispatches(seq) == Cardinality({i \in 1..Len(seq) : seq[i] = "dispatch"})

\* C11: an error of a step's classification, capture, price extraction,
\* rescue wait or transition wait whose message does not indicate closure
\* ends that step only: the loop is at the head of the next step number, the
\* run is not stopped, nothing is dispatched after the error, and
\* noActionCount, reachedPaywall and the captured data are as they were; a
\* run ends as fatal only when navigation failed, before any step.
C11_StepErrorEndsOnlyTheStep ==
  /\ [][(errors' = errors + 1) =>
          /\ pc \in {"classify", "paywall", "antiloop", "transition"}
          /\ pc' = "head"
          /\ step' = step + 1
          /\ stopReason' = stopReason
          /\ noActionCount' = noActionCount
          /\ Dispatches(ops') = Dispatches(ops)
          /\ actionResult' = actionResult
          /\ reachedPaywall' = reachedPaywall
          /\ totalSteps' = totalSteps]_vars
  /\ [](stopReason = "fatal" => (iterations = 0 /\ index \in failedNav))

C11_Witness ==
  /\ pc = "head"
  /\ errors = 1
  /\ classification = "paywall"
  /\ ops = <<"classify", "capture">>
  /\ ~reachedPaywall
  /\ noActionCount = 1
  /\ step >= 3

(***************************************************************************)
(* Properties of classifyScreen, over SpecClassify.                        *)
(***************************************************************************)
\* the paywall rule matches the page at the step it was classified at
PaywallRuleMatches == screenStep > 1 /\ strongPaywallSignal(Probe(page), screenStep)

C13_RadiosAlwaysQuestion ==
  (page.radios >= 2 /\ page.textInputs >= 2) => screenType = "question"

\* C13, amended: a page with at least 2 radio controls and at least 2 text
\* inputs is never classified input; it is classified paywall when the
\* paywall rule matches, else email when the email rule matches, and
\* question in every other case.
C13_RadiosNeverInput ==
  (page.radios >= 2 /\ page.textInputs >= 2) =>
    /\ screenType # "input"
    /\ screenType = IF PaywallRuleMatches THEN "paywall"
                    ELSE IF emailRule(Probe(page)) THEN "email"
                    ELSE "question"

C13_Witness ==
  /\ page.radios = 2
  /\ page.textInputs = 2
  /\ page.emailInputs = 0
  /\ "What is your name?" \in page.text
  /\ screenType = "question"
  /\ screenStep = MaxClassifyStep

\* every paywall predicate holds of the page once the step number is large
AllPaywallPredicates(p) ==
  /\ aggressivePaywall(Probe(p), MaxClassifyStep)
  /\ lateStageSoftPaywall(Probe(p), MaxClassifyStep)
  /\ lateStagePriceOfferPaywall(Probe(p), MaxClassifyStep)
  /\ Probe(p).paywallCtaCount >= 1
  /\ Probe(p).priceMatches >= 2
  /\ Probe(p).hasPaywallText

\* C14 as stated: a page that satisfies every paywall predicate is recorded
\* as other when it is classified at step 1.
C14_PaywallPageIsOtherAtStepOne ==
  (screenStep = 1 /\ AllPaywallPredicates(page)) =>
    ForcedNonPaywall(screenStep, screenType) = "other"

\* the controls the statement counts as trial or purchase calls to action
TrialOrPurchaseControls == {"Subscribe", "Start Trial"}

\* C15 as stated: at step >= 20 a page without price match whose text has
\* subscription vocabulary and that has a trial or purchase control is
\* classified paywall.
C15_DeepSoftPaywall ==
  (/\ screenStep >= 20
   /\ page.prices = 0
   /\ page.text \cap MatchesSubscriptionVocab # {}
   /\ page.buttons \cap TrialOrPurchaseControls # {}) => screenType = "paywall"

\* the number of purchase controls of the page
PurchaseControls == Cardinality(page.buttons \cap MatchesPaywallKeywords)

\* the rules (a) to (d) of the paywall threshold policy, on the page
PaywallPolicy(s) ==
  \/ /\ PurchaseControls >= 1
     /\ \/ page.prices >= 2
        \/ page.prices >= 1 /\ Content(page) \cap MatchesPaywallText # {}
  \/ /\ s >= 10 /\ page.prices >= 1 /\ PurchaseControls >= 1
     /\ Content(page) \cap MatchesCommerceVocab # {}
  \/ /\ s >= 15 /\ page.prices >= 1
     /\ Content(page) \cap MatchesOfferVocab # {}
  \/ /\ s >= 20 /\ PurchaseControls >= 1
     /\ Content(page) \cap MatchesSubscriptionVocab # {}

\* C16: a page is classified paywall exactly when step > 1 and one of the
\* rules (a) to (d) of the threshold policy holds; a page classified paywall
\* at one step is classified paywall at the next.
C16_PaywallPolicy ==
  /\ [](screenStep >= 1 =>
         (screenType = "paywall" <=> (screenStep > 1 /\ PaywallPolicy(screenStep))))
  /\ [][(screenType = "paywall" /\ screenStep' = screenStep + 1) =>
          screenType' = "paywall"]_vars

C16_Witness ==
  /\ screenStep = 20
  /\ screenType = "paywall"
  /\ page.prices = 0
  /\ page.emailInputs = 1
  /\ ~strongPaywallSignal(Probe(page), 19)

\* C17: a page with an email-typed input that the paywall rule does not match
\* is classified email, whatever text inputs and radio controls it has.
C17_EmailBeforeInput ==
  (page.emailInputs >= 1 /\ ~PaywallRuleMatches) => screenType = "email"

C17_Witness ==
  /\ page.emailInputs = 1
  /\ page.textInputs = 1
  /\ page.radios = 0
  /\ screenStep > 1
  /\ screenType = "email"

\* C18 as stated: a page with at least 2 visible short-text buttons that are
\* neither navigational nor consent buttons, without radio control, text or
\* email input, language buttons or paywall signal, is classified question,
\* whatever its body text says.
C18_OptionButtonsAreQuestion ==
  (/\ Cardinality(page.buttons \ MatchesNavCta) >= 2
   /\ page.langButtons = 0
   /\ page.radios = 0 /\ page.textInputs = 0 /\ page.emailInputs = 0
   /\ page.prices = 0
   /\ ~strongPaywallSignal(Probe(page), MaxClassifyStep)) => screenType = "question"

(***************************************************************************)
(* Properties of the fingerprint, over SpecFingerprint.                    *)
(***************************************************************************)
\* C19: of two document states, equal address and equal normalized markup
\* give equal fingerprints; a different address, or a different length of
\* the normalized markup, gives different fingerprints.
C19_FingerprintStability ==
  snapA # NoSnapshot =>
    /\ (snapA.address = snapB.address
           /\ Normalize(snapA.markup) = Normalize(snapB.markup))
          => snapA.hash = snapB.hash
    /\ (snapA.address # snapB.address
           \/ Len(Normalize(snapA.markup)) # Len(Normalize(snapB.markup)))
          => snapA.hash # snapB.hash

C19_Witness ==
  /\ snapA # NoSnapshot
  /\ snapA.address # snapB.address
  /\ snapA.markup # snapB.markup
  /\ Normalize(snapA.markup) = Normalize(snapB.markup)
  /\ Len(Normalize(snapA.markup)) < Len(snapA.markup)
  /\ snapA.hash # snapB.hash

(***************************************************************************)
(* Properties of the option selection, over SpecRotation.                  *)
(***************************************************************************)
\* a selection among exactly 4 candidates none of which has a smart keyword
Ambiguous4(sel) == sel.count = 4 /\ ~sel.smart

\* C20 as stated: of two consecutive selections among exactly 4 candidates
\* without smart keyword, the second chooses the position after the one the
\* first chose, in the cycle 0, 1, 2, 3, 0, ...; so never the same position.
C20_RotationCycle ==
  (/\ selection.path # "none"
   /\ selection.before # <<>>
   /\ Ambiguous4(selection)
   /\ Ambiguous4(selection.before[1])) =>
     /\ selection.chosen = (selection.before[1].chosen + 1) % 4
     /\ selection.chosen # selection.before[1].chosen

(***************************************************************************)
(* Properties of the dispatch within the driver loop, over Spec.           *)
(***************************************************************************)
\* the program counters of the loop body
InStep == pc \in {"classify", "paywall", "antiloop", "dispatch", "transition"}

\* the step ends: the loop goes to its head or leaves for the finally block
StepEnds == InStep /\ pc' \in {"head", "finally"}

\* the number of calls of closeCommonPopups among the operations of a step
PopupCalls(seq) == Cardinality({i \in 1..Len(seq) : seq[i] = "popups"})

\* the position of the first occurrence of an operation, 0 when absent
FirstAt(seq, op) ==
  IF op \in Range(seq) THEN CHOOSE i \in 1..Len(seq) :
                                /\ seq[i] = op
                                /\ \A j \in 1..(i - 1) : seq[j] # op
  ELSE 0

\* C24 as stated: every step of the loop that ends has called the popup
\* closer exactly once, after its classification and before any action of
\* the archetype.
C24_PopupsOnceInEveryStep ==
  [][StepEnds =>
       /\ PopupCalls(ops') = 1
       /\ FirstAt(ops', "classify") < FirstAt(ops', "popups")]_vars

\* C24, amended: a step calls the popup closer at most once, and exactly
\* once when it ends in the dispatch or in the transition wait; the call
\* comes after the classification and the capture and directly before the
\* action of the archetype; a step that ends in its classification, in the
\* paywall branch or in the anti-loop check has not called it.
C24_PopupsOnceInDispatchingSteps ==
  /\ [][StepEnds =>
          /\ PopupCalls(ops') = (IF pc \in {"dispatch", "transition"} THEN 1 ELSE 0)
          /\ Dispatches(ops') <= PopupCalls(ops')]_vars
  /\ [](PopupCalls(ops) = 1 =>
          /\ ops[1] = "classify" /\ ops[2] = "capture"
          /\ FirstAt(ops, "popups") > 2
          /\ ("dispatch" \in Range(ops) =>
                FirstAt(ops, "dispatch") = FirstAt(ops, "popups") + 1))

C24_Witness ==
  /\ pc = "head"
  /\ step = 3
  /\ ops = <<"classify", "capture", "fingerprint", "popups", "dispatch", "transition">>
  /\ actionResult.performed

\* C26: at the head of the loop, and anywhere in a step before its dispatch
\* has returned, noActionCount is 0 or 1; it is 2 only once the dispatch of
\* the step that stops the run by the no-action rule has reported.
C26_NoActionCounterAtLoopHead ==
  /\ (pc = "head" \/ InStep) => noActionCount \in {0, 1}
  /\ noActionCount >= 2 =>
       /\ noActionCount = 2
       /\ pc = "finally"
       /\ stopReason = "no action"
       /\ ~actionResult.performed
       /\ "popups" \in Range(ops)

C26_Witness ==
  /\ pc = "head"
  /\ noActionCount = 1
  /\ iterations >= 3
  /\ step >= 4

\* C30 as stated: the archetype a dispatch acts on is the classification of
\* the document as it stands when the dispatcher is called, with the override
\* of the first step.
C30_DispatchOnCurrentClassification ==
  [][DispatchStep =>
       classification = ForcedNonPaywall(step, classifyScreen(doc, step))]_vars

(***************************************************************************)
(* Properties of clickLocator, over SpecClick.                             *)
(***************************************************************************)
\* the attempt succeeded: its awaited call did not raise
AttemptDone(o, a) ==
  CASE a = "click" -> o.click = "ok"
    [] a = "force" -> o.force = "ok"
    [] a = "invoke" -> o.invoke = "ok"

\* C22: clickLocator never raises; the clicks it attempts are, in this
\* order, the normal click (when scroll and wait did not raise), the forced
\* click and the in-page invocation; an attempt is made only when every
\* earlier one failed, none is made after a success, the forced click is
\* made whenever the normal click did not succeed and the invocation
\* whenever the forced click failed; it returns true exactly when one of the
\* attempts succeeded.
C22_ResilientClick ==
  (call.fn = "clickLocator") =>
    LET a == effect.attempts
        o == call.o
    IN
    /\ effect.kind = "return"
    /\ a \in {<<"click">>, <<"click", "force">>, <<"click", "force", "invoke">>,
              <<"force">>, <<"force", "invoke">>}
    /\ \A i \in 1..(Len(a) - 1) : ~AttemptDone(o, a[i])
    /\ ("click" \in Range(a)) <=> NormalClickTried(o)
    /\ ("force" \in Range(a)) <=> ~NormalClickDone(o)
    /\ ("invoke" \in Range(a)) <=> (~NormalClickDone(o) /\ o.force # "ok")
    /\ effect.value <=> (\E i \in 1..Len(a) : AttemptDone(o, a[i]))

C22_Witness ==
  /\ call.fn = "clickLocator"
  /\ call.o.scroll = "ok" /\ call.o.wait = "ok"
  /\ call.o.click # "ok" /\ call.o.force # "ok" /\ call.o.invoke = "ok"
  /\ effect.attempts = <<"click", "force", "invoke">>
  /\ effect.value

(***************************************************************************)
(* Properties of closeCommonPopups, over SpecPopups.                       *)
(***************************************************************************)
\* C23 as stated: whatever query, visibility check, click or wait of
\* whatever stage fails, closeCommonPopups returns its trace.
C23_PopupCloserNeverRaises ==
  (call.fn = "closeCommonPopups") => effect.kind = "return"

(***************************************************************************)
(* Properties of handleStepAction, over SpecDispatch.                      *)
(***************************************************************************)
\* a call of the dispatcher for the archetype that returned
Returned(type) ==
  call.fn = "handleStepAction" /\ call.type = type /\ effect.kind = "return"

\* the interactions of the archetype's procedure, those of the popup closer
\* left out
ProcedureDid == {effect.did[i] : i \in 1..Len(effect.did)} \ {"popup"}

\* C21 as stated: on a question screen the option kinds are tried in the
\* order radio/checkbox, button, card, a later kind exactly when every
\* earlier kind selected nothing; then the strict CTA click is attempted;
\* the confirm key is pressed exactly when no CTA was clicked; performed is
\* the disjunction of option selected, CTA clicked and key pressed.
C21_QuestionFallbackChain ==
  Returned("question") =>
    LET t == effect.tried
        has(x) == x \in Range(t)
    IN
    /\ t[1] = "popups" /\ t[2] = "radio"
    /\ has("button") <=> (effect.option # "radio")
    /\ has("card") <=> (effect.option \notin {"radio", "button"})
    /\ has("button") /\ has("card") => FirstAt(t, "button") < FirstAt(t, "card")
    /\ has("cta")
    /\ \A k \in {"radio", "button", "card"} :
          has(k) => FirstAt(t, k) < FirstAt(t, "cta")
    /\ has("key") <=> ("cta" \notin ProcedureDid)
    /\ effect.performed <=>
          (effect.option # "none" \/ "cta" \in ProcedureDid \/ has("key"))

\* C25 as stated: a dispatch for paywall returns performed = false and has
\* done nothing to the document.
C25_PaywallDispatchTouchesNothing ==
  (call.fn = "handleStepAction" /\ call.type = "paywall") =>
    /\ effect.kind = "return"
    /\ ~effect.performed
    /\ effect.did = <<>>

\* C25, amended: a dispatch for paywall calls the popup closer and nothing
\* else; it clicks nothing but a cookie button the closer found, fills
\* nothing, presses no key, leaves the rotation cursor and the rest of the
\* screen as they were, and, unless the closer raised, returns performed =
\* false.
C25_PaywallDispatchOnlyClosesPopups ==
  (call.fn = "handleStepAction" /\ call.type = "paywall") =>
    /\ ~effect.performed
    /\ effect.tried = <<"popups">>
    /\ ProcedureDid = {}
    /\ effect.did = (IF effect.kind = "return" /\ call.screen.popup = "visible"
                     THEN <<"popup">> ELSE <<>>)
    /\ effect.after = [call.screen EXCEPT
                         !.popup = IF effect.did = <<>> THEN @ ELSE "absent"]
    /\ effect.shift = call.shift
    /\ effect.kind = "throw" <=> call.env.fault # NoFault

C25_Witness ==
  /\ Returned("paywall")
  /\ call.screen.popup = "visible"
  /\ call.screen.cta
  /\ call.screen.buttons = 2
  /\ effect.did = <<"popup">>
  /\ ~effect.performed

\* C27 as stated: a consent checkbox that is checked when the email
\* procedure is dispatched is checked when the dispatch returns.
C27_ConsentStaysChecked ==
  (Returned("email") /\ ConsentChecked(call.screen)) => ConsentChecked(effect.after)

\* C29 as stated: a dispatch reports performed = true exactly when its
\* procedure executed an interaction with the document.
C29_PerformedIffInteraction ==
  (call.fn = "handleStepAction" /\ effect.kind = "return") =>
    (effect.performed <=> ProcedureDid # {})

\* the email procedure's calls in order: the consent step comes after the
\* fill and the keys of the submit stage, and the last call is the CTA click
ConsentThenCta ==
  LET t == effect.tried
      consentAt == FirstAt(t, "consent")
  IN
  /\ FirstAt(t, "fill") > 0
  /\ consentAt > FirstAt(t, "fill")
  /\ \A i \in 1..Len(t) : t[i] = "key" => i < consentAt
  /\ Cardinality({i \in 1..Len(t) : t[i] = "consent"}) = 1
  /\ Len(t) > consentAt
  /\ t[Len(t)] = "cta"
  /\ \A i \in (consentAt + 1)..(Len(t) - 1) :
        t[i] \in {"consent label", "consent box"}

C28_SelectionPolicy ==
  (selection.path # "none") =>
    selection.chosen =
      (IF selection.keywords # {}
       THEN CHOOSE i \in selection.keywords : \A j \in selection.keywords : i <= j
       ELSE IF selection.count >= 2
       THEN selection.shift % (IF selection.count < 4 THEN selection.count ELSE 4)
       ELSE 0)

(***************************************************************************)
(* More properties of classifyScreen, over SpecClassify.                   *)
(***************************************************************************)
\* C31 as stated: a page whose only email-typed input is hidden is not
\* classified email.
C31_HiddenEmailInputIgnored ==
  (page.emailInputs = 0 /\ page.hiddenEmail) => screenType # "email"

\* C37 as stated: a page with 2 or more short buttons that are neither
\* navigation nor language names, on which no earlier rule matches, is
\* classified question, with or without a cluster of language buttons.
C37_LanguageButtonsDoNotSuppressOptions ==
  (/\ Cardinality(page.buttons \ MatchesNavCta) >= 2
   /\ ~PaywallRuleMatches
   /\ ~emailRule(Probe(page))
   /\ page.textInputs = 0
   /\ ~Probe(page).inputKeywords) => screenType = "question"

(***************************************************************************)
(* More properties of the driver loop, over Spec.                          *)
(***************************************************************************)
\* C38 as stated: reachedPaywall implies that paywall was detected and that
\* at least 2 steps were captured; email is detected iff emailReached;
\* something is detected iff a step was captured; totalSteps is at most the
\* number of iterations started, at most maxSteps unless email was
\* detected, and at most maxSteps + 15.
C38_RunStateInvariants ==
  /\ reachedPaywall => ("paywall" \in detectedTypes /\ totalSteps >= 2)
  /\ ("email" \in detectedTypes) <=> emailReached
  /\ (detectedTypes # {}) <=> (totalSteps >= 1)
  /\ totalSteps <= iterations
  /\ ("email" \notin detectedTypes) => totalSteps <= maxSteps
  /\ totalSteps <= maxSteps + 15

\* C38 amended: as stated, except that reachedPaywall implies only that at
\* least 1 step was captured (in a loop iteration numbered 2 or more): an
\* earlier iteration that failed before its capture counts no step.
C38_RunStateInvariantsOneStep ==
  /\ reachedPaywall =>
       ("paywall" \in detectedTypes /\ totalSteps >= 1 /\ step >= 2)
  /\ ("email" \in detectedTypes) <=> emailReached
  /\ (detectedTypes # {}) <=> (totalSteps >= 1)
  /\ totalSteps <= iterations
  /\ ("email" \notin detectedTypes) => totalSteps <= maxSteps
  /\ totalSteps <= maxSteps + 15

\* a paywall stop at the second iteration, the first one having failed
\* before its capture
C38_Witness ==
  /\ reachedPaywall
  /\ totalSteps = 1
  /\ iterations = 2
  /\ errors = 1
  /\ detectedTypes = {"paywall"}

\* C32 as stated: a question dispatch that returns reports performed, so the
\* no-action counter is reset unless the dispatch raised; and a run in which
\* only question steps were captured is never stopped by the no-action rule.
C32_QuestionRunNeverStopsOnNoAction ==
  [][(DispatchStep /\ classification = "question") =>
       /\ actionResult'.error = "none" =>
            (actionResult'.performed /\ noActionCount' = 0)
       /\ ~(stopReason' = "no action" /\ detectedTypes \subseteq {"question"})]_vars

\* C32 amended: a question dispatch that returns reports performed, resets
\* the no-action counter and goes on to the transition wait; a question
\* step adds to the no-action counter only when its dispatch raised, and
\* the no-action rule stops a run at a question step only when that
\* dispatch raised and the counter was already 1 or more.
C32_QuestionStopsOnNoActionOnlyAfterErrors ==
  [][(DispatchStep /\ classification = "question") =>
       /\ actionResult'.error = "none" =>
            (actionResult'.performed /\ noActionCount' = 0 /\ pc' = "transition")
       /\ noActionCount' > noActionCount => actionResult'.error # "none"
       /\ stopReason' = "no action" =>
            (actionResult'.error # "none" /\ noActionCount >= 1)]_vars

\* a run of question steps only that the no-action rule stopped
C32_Witness ==
  /\ stopReason = "no action"
  /\ pc = "finally"
  /\ classification = "question"
  /\ detectedTypes = {"question"}
  /\ actionResult.error # "none"
  /\ noActionCount = 2

\* the fingerprint step: the fingerprint of the document at the comparison,
\* the counter the comparison gives, and the fingerprint after a rescue
FingerprintStep == pc = "antiloop"
Compared ==
  IF getStableDomSnapshot(closed, doc, step) = previousHash
  THEN sameHashCount + 1 ELSE 1
RescueCount(seq) == Cardinality({i \in 1..Len(seq) : seq[i] = "email rescue"})

\* C35: in every step that reaches the fingerprint comparison the counter
\* becomes counter + 1 when the fingerprint equals the stored one and 1
\* otherwise, and the stored fingerprint becomes the current one (a rescue
\* that changed the document then sets 1 and the post-rescue fingerprint);
\* after the comparison the counter is >= 1, and it is 1 at the first
\* fingerprinted step.
C35_SameHashCounter ==
  /\ [][FingerprintStep =>
          /\ \/ /\ sameHashCount' = Compared
                /\ previousHash' = getStableDomSnapshot(closed, doc, step)
             \/ /\ sameHashCount' = 1
                /\ previousHash' = getStableDomSnapshot(closed, doc', step)
                /\ previousHash' # getStableDomSnapshot(closed, doc, step)
                /\ \/ classification = "email" /\ Compared >= 3
                   \/ step >= 8
          /\ sameHashCount' >= 1
          /\ previousHash = <<>> => sameHashCount' = 1]_vars
  /\ [](pc \in {"dispatch", "transition"} =>
          (sameHashCount >= 1 /\ previousHash # <<>>))

\* a step whose fingerprint equals the stored one, after one that differed
C35_Witness ==
  /\ pc = "dispatch"
  /\ sameHashCount = 2
  /\ hashChanged
  /\ previousHash = getStableDomSnapshot(closed, doc, step)

\* the counter and the stored fingerprint after the second fingerprint of
\* an email rescue
RescueSettled ==
  LET domHash == getStableDomSnapshot(closed, doc, step)
      rescueHash == getStableDomSnapshot(closed, doc', step)
  IN IF rescueHash # domHash
     THEN sameHashCount' = 1 /\ previousHash' = rescueHash
     ELSE sameHashCount' = Compared /\ previousHash' = domHash

Chose(p, how) ==
  tasks[p].pc = "collecting" /\ tasks'[p].pc = "clicking" /\ tasks'[p].how = how

\* C34: the cursor is 0 until the first rotating selection, grows by exactly
\* 1 in every rotating selection, and is left as it is by keyword and
\* sole-candidate selections, card selections and every other step, the
\* start of the next funnel included; it never decreases.
C34_CursorLifecycle ==
  /\ [](rotations = <<>> => fallbackOptionShift = 0)
  /\ [][/\ fallbackOptionShift' =
               (IF \E p \in Tasks : Chose(p, "rotate")
                THEN fallbackOptionShift + 1 ELSE fallbackOptionShift)
        /\ fallbackOptionShift' >= fallbackOptionShift]_vars

\* in its second funnel, after rotating selections of the first, a run makes
\* a keyword selection: the cursor is still where the first funnel left it
C34_Witness ==
  /\ \E p \in Tasks : /\ tasks[p].funnel = 2
                       /\ tasks[p].pc = "clicking"
                       /\ tasks[p].how = "keyword"
  /\ \A p \in Tasks : tasks[p].funnel = 2
  /\ fallbackOptionShift = 2
  /\ rotations = <<0, 1>>

\* C39: however the runs are interleaved, the k rotating selections made so
\* far have read k different cursor values and the cursor stands at k.
C39_NoLostCursorUpdate ==
  /\ fallbackOptionShift = Len(rotations)
  /\ \A i, j \in 1..Len(rotations) : i # j => rotations[i] # rotations[j]

\* two runs were inside an option helper at the same time, called at the
\* same cursor value, and both rotated
C39_Witness ==
  /\ \A p \in Tasks : /\ tasks[p].pc = "clicking"
                       /\ tasks[p].how = "rotate"
                       /\ tasks[p].seen = 1
  /\ rotations = <<0, 1, 2>>
  /\ fallbackOptionShift = 3

====
